---- MODULE Spec2Model ----
(***************************************************************************)
(* SplitMint: the transaction store (db.py), the e-mail pipeline           *)
(* (process_transactions.py), the split allocator (db.py) and the merchant *)
(* categorizer (categorizer.py), as state machines.                        *)
(*                                                                         *)
(* Money is counted in paise (1/100 rupee) and percentages in hundredths   *)
(* of a percent, so that round(x, 2) is rounding to an integer.  The       *)
(* program computes in binary64: where the decimal value is exactly on a   *)
(* rounding tie or exactly on a tolerance, the outcome depends on the      *)
(* representation error of the operands and is a choice of the float       *)
(* oracle fp (see calculate_split_amounts).                                *)
(***************************************************************************)
EXTENDS Integers, Sequences, FiniteSets, TLC

VARIABLES
    transactions,   \* db.transactions: a set of documents
    splits,         \* db.splits: a set of documents
    nextId,         \* the next ObjectId the server hands out
    run,            \* run[r]: the locals of runner r's process_all_transactions
    result,         \* result[r]: what r's last process_all_transactions returned
    resp,           \* what the last request handler / db call returned
    call,           \* call[c]: the locals of caller c's create_or_update_split
    alloc,          \* calculate_split_amounts: its arguments and its outcome
    cat,            \* categorize_merchant: its arguments and its outcome
    parse,          \* parse_transaction_from_email: its arguments and its outcome
    monitor         \* email_monitor.py: monitoring_active and the thread's position

vars == <<transactions, splits, nextId, run, result, resp, call, alloc, cat, parse,
          monitor>>


-----------------------------------------------------------------------------
(* Bounds of the model *)

\* the most documents the store is allowed to hold ids for
MaxId == 4

\* the most messages one fetch returns in the model (the code asks for NumEmails)
MaxBatch == 2

\* process_transactions.py:116  fetch_transaction_emails(num_emails=3, ...)
NumEmails == 3

Min(a, b) == IF a < b THEN a ELSE b

Abs(x) == IF x < 0 THEN 0 - x ELSE x

RECURSIVE SumSeq(_)
SumSeq(s) == IF s = <<>> THEN 0 ELSE s[1] + SumSeq(Tail(s))

\* every sequence over S of length 0..n
SeqUpTo(S, n) == UNION {[1..k -> S] : k \in 0..n}

-----------------------------------------------------------------------------
(* Strings: Python's str methods the program uses, on TLA+ strings *)

UpperLetters == "ABCDEFGHIJKLMNOPQRSTUVWXYZ"

LowerLetters == "abcdefghijklmnopqrstuvwxyz"

\* the i-th character of s, as a string of length 1
Char(s, i) == SubSeq(s, i, i)

LowerChar(c) ==
    IF \E i \in 1..Len(UpperLetters) : Char(UpperLetters, i) = c
    THEN Char(LowerLetters, CHOOSE i \in 1..Len(UpperLetters) : Char(UpperLetters, i) = c)
    ELSE c

\* str.lower()
RECURSIVE lower(_)
lower(s) ==
    IF Len(s) = 0 THEN "" ELSE LowerChar(Char(s, 1)) \o lower(SubSeq(s, 2, Len(s)))

IsSpace(c) == c \in {" ", "\t", "\n", "\r"}

\* str.strip()
RECURSIVE lstrip(_)
lstrip(s) ==
    IF Len(s) > 0 /\ IsSpace(Char(s, 1)) THEN lstrip(SubSeq(s, 2, Len(s))) ELSE s

RECURSIVE rstrip(_)
rstrip(s) ==
    IF Len(s) > 0 /\ IsSpace(Char(s, Len(s))) THEN rstrip(SubSeq(s, 1, Len(s) - 1)) ELSE s

strip(s) == rstrip(lstrip(s))

\* Python's  k in s  on strings (the empty string is in every string)
In(k, s) == \E i \in 1..(Len(s) - Len(k) + 1) : SubSeq(s, i, i + Len(k) - 1) = k

SeqToSet(s) == {s[i] : i \in 1..Len(s)}

-----------------------------------------------------------------------------
(* categorizer.py *)

get_valid_categories == <<
    "Food and Drinks",
    "Groceries",
    "Shopping",
    "Entertainment",
    "Travel and Transport",
    "Bills and Utilities",
    "Healthcare",
    "Education",
    "Investments",
    "Personal Care",
    "Subscriptions",
    "Others"
>>

\* categorizer.py:105-209: the keyword lists, in the order the code tests them
FallbackRules == <<
    [category |-> "Food and Drinks",  \* lines 106-113
     keywords |-> <<"restaurant", "cafe", "coffee", "pizza", "burger", "food",
                    "domino", "mcdonald", "kfc", "subway", "starbucks", "swiggy",
                    "zomato", "ubereats", "dining", "kitchen", "biryani",
                    "dhaba", "bar", "pub", "drinks", "bakery", "tea", "juice",
                    "ice cream", "dunkin">>],
    [category |-> "Groceries",  \* lines 116-122
     keywords |-> <<"grocery", "supermarket", "blinkit", "bigbasket", "grofers",
                    "instamart", "dunzo", "fresh", "vegetables", "fruits",
                    "dmart", "reliance fresh", "more megastore",
                    "nature's basket", "spencer", "star bazaar", "jiomart">>],
    [category |-> "Shopping",  \* lines 125-132
     keywords |-> <<"amazon", "flipkart", "myntra", "ajio", "meesho", "shop",
                    "store", "mart", "bazaar", "mall", "retail", "fashion",
                    "clothing", "electronics", "apparel", "furniture", "decor",
                    "snapdeal", "nykaa", "lenskart", "vijay sales", "croma",
                    "reliance digital">>],
    [category |-> "Entertainment",  \* lines 135-142
     keywords |-> <<"netflix", "prime", "hotstar", "spotify", "youtube", "movie",
                    "cinema", "theater", "theatre", "pvr", "inox", "game",
                    "entertainment", "music", "concert", "event", "bookmyshow",
                    "paytm insider", "sony liv", "zee5", "disney", "voot",
                    "mx player">>],
    [category |-> "Travel and Transport",  \* lines 145-153
     keywords |-> <<"uber", "ola", "rapido", "taxi", "cab", "metro", "bus",
                    "train", "flight", "airline", "fuel", "petrol", "transport",
                    "travel", "hotel", "resort", "booking", "airbnb",
                    "makemytrip", "goibibo", "cleartrip", "irctc", "indigo",
                    "spicejet", "vistara", "air india", "diesel", "parking",
                    "toll", "oyo">>],
    [category |-> "Bills and Utilities",  \* lines 156-163
     keywords |-> <<"electricity", "water", "gas", "bill", "utility",
                    "broadband", "internet", "wifi", "recharge", "mobile",
                    "airtel", "jio", "vodafone", "bsnl", "tata", "adani",
                    "reliance", "postpaid", "prepaid", "tata sky", "dish tv",
                    "sun direct", "airtel digital", "dth">>],
    [category |-> "Healthcare",  \* lines 166-173
     keywords |-> <<"hospital", "clinic", "doctor", "medical", "health",
                    "pharmacy", "apollo", "medplus", "netmeds", "1mg",
                    "pharmeasy", "medicine", "diagnostic", "lab", "test",
                    "fortis", "max", "manipal", "narayana", "dental",
                    "physiotherapy", "ayurveda">>],
    [category |-> "Education",  \* lines 176-182
     keywords |-> <<"education", "school", "college", "university", "course",
                    "tuition", "coaching", "udemy", "coursera", "upgrad", "byju",
                    "unacademy", "vedantu", "toppr", "book", "library",
                    "stationery", "exam", "fees", "admission">>],
    [category |-> "Investments",  \* lines 185-191
     keywords |-> <<"investment", "mutual fund", "stock", "sip", "insurance",
                    "zerodha", "groww", "upstox", "angel", "paytm money", "lic",
                    "hdfc life", "icici prudential", "sbi life", "policy",
                    "premium", "fd", "fixed deposit", "recurring">>],
    [category |-> "Personal Care",  \* lines 194-200
     keywords |-> <<"salon", "spa", "beauty", "parlour", "gym", "fitness",
                    "yoga", "massage", "wellness", "hair", "skin", "cult.fit",
                    "urban company", "lakme", "vlcc", "grooming", "cosmetics",
                    "makeup">>],
    [category |-> "Subscriptions",  \* lines 203-209
     keywords |-> <<"subscription", "monthly", "annual", "membership",
                    "amazon prime", "youtube premium", "linkedin premium",
                    "office 365", "adobe", "microsoft", "apple", "google one",
                    "icloud", "dropbox", "canva pro">>]
>>

\* any(keyword in merchant_lower for keyword in [...])
AnyKeyword(keywords, merchant_lower) ==
    \E k \in 1..Len(keywords) : In(keywords[k], merchant_lower)

\* faulty variant: the last matching keyword list decides
categorize_merchant_fallback_last(merchant_name) ==
    LET merchant_lower == lower(merchant_name)
        hits == {r \in 1..Len(FallbackRules) :
                    AnyKeyword(FallbackRules[r].keywords, merchant_lower)}
    IN  IF hits = {} THEN "Others"
        ELSE FallbackRules[CHOOSE r \in hits : \A q \in hits : r >= q].category

categorize_merchant_fallback(merchant_name) ==
    LET merchant_lower == lower(merchant_name)
        hits == {r \in 1..Len(FallbackRules) :
                    AnyKeyword(FallbackRules[r].keywords, merchant_lower)}
    IN  IF hits = {} THEN "Others"
        ELSE FallbackRules[CHOOSE r \in hits : \A q \in hits : r <= q].category

\* What the remote classifier does for one call: genai.configure, GenerativeModel,
\* generate_content or response.text raises, or response.text is a string.
GeminiRaises == [kind |-> "raise", text |-> ""]

GeminiText(t) == [kind |-> "text", text |-> t]

\* faulty variant of PartialMatches: only a response that holds a category
\* name matches, not one that is part of a category name
PartialMatchesOneWay(category) ==
    {c \in 1..Len(get_valid_categories) :
        In(lower(get_valid_categories[c]), lower(category))}

\* categorizer.py:78-81  the first valid_cat with
\*   valid_cat.lower() in category.lower() or category.lower() in valid_cat.lower()
PartialMatches(category) ==
    {c \in 1..Len(get_valid_categories) :
        \/ In(lower(get_valid_categories[c]), lower(category))
        \/ In(lower(category), lower(get_valid_categories[c]))}

\* An outcome of a call: it returns a value or an exception leaves it.
Return(v) == [kind |-> "return", value |-> v]

Raise(e) == [kind |-> "raise", value |-> e]

\* no call has been made yet
NotRun == [kind |-> "none", value |-> ""]

\* Faulty variant of categorize_merchant, trusting the classifier: a response that
\* matches no category is returned as it is instead of going to the fallback.
categorize_merchant_trusting(merchant_name, api_key, gemini) ==
    IF ~api_key THEN Return(categorize_merchant_fallback(merchant_name))
    ELSE IF gemini.kind = "raise" THEN Return(categorize_merchant_fallback(merchant_name))
    ELSE LET category == strip(gemini.text)
             partial == PartialMatches(category)
         IN  IF category \in SeqToSet(get_valid_categories) THEN Return(category)
             ELSE IF partial # {}
                  THEN Return(get_valid_categories[CHOOSE c \in partial : \A d \in partial : c <= d])
                  ELSE Return(category)

\* api_key: whether GEMINI_API_KEY is set; gemini: what the remote call does.
categorize_merchant(merchant_name, api_key, gemini) ==
    IF ~api_key
    THEN Return(categorize_merchant_fallback(merchant_name))          \* lines 51-53
    ELSE IF gemini.kind = "raise"
    THEN Return(categorize_merchant_fallback(merchant_name))          \* lines 87-90
    ELSE LET category == strip(gemini.text)                           \* line 72
             partial == PartialMatches(category)
         IN  IF category \in SeqToSet(get_valid_categories)           \* lines 75-76
             THEN Return(category)
             ELSE IF partial # {}                                     \* lines 79-81
                  THEN Return(get_valid_categories[CHOOSE c \in partial : \A d \in partial : c <= d])
                  ELSE Return(categorize_merchant_fallback(merchant_name))  \* line 85

-----------------------------------------------------------------------------
(* db.py: calculate_split_amounts *)

\* dict.get(key, default) on a participant: the key is missing (Absent), or it is
\* there with the value None (models.py:80-81: an Optional field the request left
\* out, after model_dump), or it holds a number >= 0.
Absent == -1

NoneVal == -2

\* p.get(key, default)
Get(v, default) == IF v = Absent THEN default ELSE v

\* abs(a - b) > 0.01 in binary64, a and b in hundredths: decided by the decimal
\* values except when they are exactly 0.01 apart, where the representation
\* error decides (abs(0.99 - 1.0) > 0.01 and abs(33.33 + 33.33 + 33.33 - 100) > 0.01 are
\* True, abs(299.99 - 300) > 0.01 and abs(49.99 + 50.0 - 100) > 0.01 are False).
Tolerance == 1

OnEdge(a, b) == Abs(a - b) = Tolerance

\* Faulty variant of Differs: the tolerance is 0.1 instead of 0.01.
DiffersByATenth(a, b, edge) == Abs(a - b) > 10 * Tolerance

Differs(a, b, edge) == Abs(a - b) > Tolerance \/ (OnEdge(a, b) /\ edge)

\* round(num / den, 0) of a non-negative quotient; on a tie (the quotient ends in
\* exactly .5) binary64 rounds the way the representation error points: up
IsTie(num, den) == 2 * (num % den) = den

\* Faulty variant of RoundDiv: the quotient is cut off, not rounded.
RoundDivDown(num, den, up) == num \div den

RoundDiv(num, den, up) ==
    LET q == num \div den
        r == num % den
    IN  IF 2 * r > den \/ (2 * r = den /\ up) THEN q + 1 ELSE q

Percent == 100

\* hundredths of a percent in 100 %
FullPercentage == 10000

\* The float oracle of one call: the keys (a participant's percentage or ratio,
\* 0 under 'equal') whose share_amount / share_percentage is on a tie and rounds
\* up, and the two comparisons when they are exactly on the tolerance.
ShareKey(p, split_method) ==
    IF split_method = "percentage" THEN Get(p.share_percentage, 0)
    ELSE IF split_method = "ratio" THEN Get(p.share_ratio, 1)
    ELSE 0

total_percentage(participants) ==
    SumSeq([i \in 1..Len(participants) |-> Get(participants[i].share_percentage, 0)])

total_ratio(participants) ==
    SumSeq([i \in 1..Len(participants) |-> Get(participants[i].share_ratio, 1)])

total_paid(participants) ==
    SumSeq([i \in 1..Len(participants) |-> Get(participants[i].amount_paid, 0)])

\* the exact share of a participant as a quotient <<numerator, denominator>>
ExactShare(total_amount, participants, split_method, p) ==
    IF split_method = "equal" THEN <<total_amount, Len(participants)>>
    ELSE IF split_method = "percentage"
         THEN <<Get(p.share_percentage, 0) * total_amount, FullPercentage>>
    ELSE <<Get(p.share_ratio, 1) * total_amount, total_ratio(participants)>>

\* the exact share_percentage the code rounds, as a quotient
ExactPercentage(participants, split_method, p) ==
    IF split_method = "equal" THEN <<FullPercentage, Len(participants)>>
    ELSE <<Get(p.share_ratio, 1) * FullPercentage, total_ratio(participants)>>

HasNone(participants, split_method) ==
    \E i \in 1..Len(participants) :
        \/ split_method = "percentage" /\ participants[i].share_percentage = NoneVal
        \/ split_method = "ratio" /\ participants[i].share_ratio = NoneVal

\* Binary64 as CPython evaluates it on the amounts the model uses; for every
\* other amount both outcomes stay open.
\*   abs(total_paid - total_amount) > 0.01 with the two exactly 0.01 apart is
\*   True for the totals 0.16, 0.48 and 100.00 and False for 0.01 and 300.00.
PaidEdgeOutcomes(total_amount) ==
    IF total_amount \in {16, 48, 10000} THEN {TRUE}
    ELSE IF total_amount \in {1, 30000} THEN {FALSE}
    ELSE BOOLEAN

\*   abs(total_percentage - 100) > 0.01 with the percentages summing to 99.99
\*   or 100.01 is True when they are 33.33s and 33.34s, and False when a
\*   49.99 is among them (49.99 + 50.0 is 99.99000000000001).
PctEdgeOutcomes(participants) ==
    LET given == {Get(participants[i].share_percentage, 0) : i \in 1..Len(participants)}
    IN  IF 4999 \in given THEN {FALSE}
        ELSE IF given \subseteq {0, 3333, 3334} THEN {TRUE}
        ELSE BOOLEAN

\*   a share of exactly 0.005 out of a total of 0.01 is a double above 0.005
\*   and rounds up to 0.01.
TieOutcomes(total_amount, ties) ==
    IF total_amount = 1 THEN {ties} ELSE SUBSET ties

FloatOracles(total_amount, participants, split_method) ==
    LET idx == 1..Len(participants)
        computes == split_method \in {"equal", "percentage", "ratio"}
                    /\ ~HasNone(participants, split_method)
        ties == IF ~computes THEN {}
                ELSE {ShareKey(participants[i], split_method) : i \in
                        {j \in idx : LET e == ExactShare(total_amount, participants,
                                                         split_method, participants[j])
                                     IN  IsTie(e[1], e[2])}}
        pctTies == IF ~computes \/ split_method = "percentage" THEN {}
                   ELSE {ShareKey(participants[i], split_method) : i \in
                           {j \in idx : LET e == ExactPercentage(participants, split_method,
                                                                 participants[j])
                                        IN  IsTie(e[1], e[2])}}
    IN  [up : TieOutcomes(total_amount, ties), upPct : SUBSET pctTies,
         pctEdge : IF split_method = "percentage" /\ computes
                      /\ OnEdge(total_percentage(participants), FullPercentage)
                   THEN PctEdgeOutcomes(participants) ELSE {FALSE},
         paidEdge : IF OnEdge(total_paid(participants), total_amount)
                    THEN PaidEdgeOutcomes(total_amount) ELSE {FALSE}]

ValueError(what, a, b) == [type |-> "ValueError", what |-> what, a |-> a, b |-> b]

TypeError == [type |-> "TypeError", what |-> "NoneType", a |-> 0, b |-> 0]

\* lines 392-418: the shares of one participant
WithShares(total_amount, participants, split_method, fp, p) ==
    LET key == ShareKey(p, split_method)
        e   == ExactShare(total_amount, participants, split_method, p)
        ep  == ExactPercentage(participants, split_method, p)
        share == RoundDiv(e[1], e[2], key \in fp.up)
        pct   == RoundDiv(ep[1], ep[2], key \in fp.upPct)
    IN  IF split_method = "equal"
        THEN [p EXCEPT !.share_amount = share, !.share_percentage = pct,
                       !.share_ratio = 1]                              \* lines 395-398
        ELSE IF split_method = "percentage"
        THEN [p EXCEPT !.share_amount = share]                         \* lines 407-409
        ELSE IF split_method = "ratio"
        THEN [p EXCEPT !.share_percentage = pct, !.share_amount = share] \* lines 415-418
        ELSE p

\* Faulty variant of WithOwed: the sign of the settlement is turned round.
WithOwedReversed(p) ==
    [p EXCEPT !.amount_owed = Get(p.amount_paid, 0) - Get(p.share_amount, 0)]

\* lines 426-429
WithOwed(p) ==
    [p EXCEPT !.amount_owed = Get(p.share_amount, 0) - Get(p.amount_paid, 0)]

\* the participants with their shares, where the method computes them
Shared(total_amount, participants, split_method, fp) ==
    [i \in 1..Len(participants) |->
        WithShares(total_amount, participants, split_method, fp, participants[i])]

\* lines 378-431, what the call returns or raises
calculate_split_amounts(total_amount, participants, split_method, fp) ==
    LET shared == Shared(total_amount, participants, split_method, fp)
    IN  IF HasNone(participants, split_method)
        THEN Raise(TypeError)                                          \* lines 402, 413
        ELSE IF /\ split_method = "percentage"
                /\ Differs(total_percentage(participants), FullPercentage, fp.pctEdge)
        THEN Raise(ValueError("percentages", total_percentage(participants), Percent))
                                                                       \* lines 404-405
        ELSE IF Differs(total_paid(participants), total_amount, fp.paidEdge)
        THEN Raise(ValueError("paid", total_paid(participants), total_amount))
                                                                       \* lines 423-424
        ELSE Return([i \in 1..Len(shared) |-> WithOwed(shared[i])])

\* lines 378-431, what the call leaves in the caller's list: the dicts are
\* changed in place, so the shares written before a raise stay
ParticipantsAfter(total_amount, participants, split_method, fp) ==
    LET out == calculate_split_amounts(total_amount, participants, split_method, fp)
    IN  IF out.kind = "return" THEN out.value
        ELSE IF out.value.type = "ValueError" /\ out.value.what = "paid"
        THEN Shared(total_amount, participants, split_method, fp)
        ELSE participants

-----------------------------------------------------------------------------
(* The allocator on its own: calls of calculate_split_amounts *)

\* models.py:90  participants: min_items=2
MinParticipants == 2

\* the most participants of a split in the model
MaxParticipants == 5

\* transaction amounts, in paise: 0.01, 0.16, 0.48, 100.00 and 300.00 rupees
Totals == {1, 16, 48, 10000, 30000}

\* share_percentage of a request, in hundredths of a percent
PercentageChoices == {Absent, NoneVal, 2500, 3333, 3334, 4999, 5000, 9950}

\* share_ratio of a request
RatioChoices == {Absent, NoneVal, 1, 2}

SplitMethods == {"equal", "percentage", "ratio"}

Names == <<"Asha", "Bilal", "Chitra", "Dev", "Esha", "Farid">>

\* A participant as the caller passes it: share_amount is not there yet.
Participant(i, pct, ratio, paid) ==
    [name |-> Names[i], share_percentage |-> pct, share_ratio |-> ratio,
     amount_paid |-> paid, share_amount |-> Absent, amount_owed |-> Absent]

\* who paid what: nobody (amount_paid 0.0, or not given at all), or the first
\* or the last participant paid the total or an amount next to it
PaidVectors(n, total_amount) ==
    {[i \in 1..n |-> 0], [i \in 1..n |-> Absent]}
    \cup {[i \in 1..n |-> IF i = k THEN a ELSE 0] :
            k \in {1, n},
            a \in {x \in {total_amount - 2, total_amount - 1, total_amount,
                          total_amount + 1} : x >= 1}}

\* one participant's field is None, the others hold v
OneNone(n, v) == {[i \in 1..n |-> IF i = k THEN NoneVal ELSE v] : k \in 1..n}

\* share_percentage of the participants of a percentage request: every choice
\* that sums to 99 % .. 101 %, and a field that is None
PercentageVectors ==
    [n \in MinParticipants..MaxParticipants |->
        {v \in [1..n -> PercentageChoices \ {NoneVal}] :
            LET s == SumSeq([i \in 1..n |-> Get(v[i], 0)])
            IN  s >= 9900 /\ s <= 10100}
        \cup OneNone(n, 5000)]

\* share_ratio of the participants of a ratio request
RatioVectors ==
    [n \in MinParticipants..MaxParticipants |->
        [1..n -> RatioChoices \ {NoneVal}] \cup OneNone(n, 1)]

\* the share fields of the participants, by method: only the field the method
\* reads varies
ShareVectors(n, split_method) ==
    IF split_method = "percentage" THEN PercentageVectors[n]
    ELSE IF split_method = "ratio" THEN RatioVectors[n]
    ELSE {[i \in 1..n |-> NoneVal], [i \in 1..n |-> Absent]}

ParticipantLists(n, split_method, total_amount) ==
    {[i \in 1..n |->
        Participant(i,
                    IF split_method = "percentage" THEN sv[i]
                    ELSE IF split_method = "equal" THEN sv[i] ELSE NoneVal,
                    IF split_method = "ratio" THEN sv[i]
                    ELSE IF split_method = "equal" THEN sv[i] ELSE NoneVal,
                    pv[i])] :
        sv \in ShareVectors(n, split_method), pv \in PaidVectors(n, total_amount)}

AllocIdle == [total_amount |-> 0, participants |-> <<>>, split_method |-> "",
              given |-> <<>>, out |-> NotRun]

\* a call of the model, before it is made
AllocInput(total_amount, participants, split_method) ==
    [total_amount |-> total_amount, participants |-> participants,
     split_method |-> split_method, given |-> participants, out |-> NotRun]

\* the call is made: db.py:378-431 from entry to return or raise.  given keeps
\* the list as it was passed, participants is the list the call worked on.
Allocate ==
    /\ alloc.out.kind = "none"
    /\ alloc.split_method # ""
    /\ \E fp \in FloatOracles(alloc.total_amount, alloc.participants, alloc.split_method) :
          alloc' = [alloc EXCEPT
                      !.out = calculate_split_amounts(alloc.total_amount,
                                  alloc.participants, alloc.split_method, fp),
                      !.participants = ParticipantsAfter(alloc.total_amount,
                                  alloc.participants, alloc.split_method, fp)]
    /\ UNCHANGED <<transactions, splits, nextId, run, result, resp, call, cat,
                 parse, monitor>>

-----------------------------------------------------------------------------
(* The categorizer on its own: calls of categorize_merchant *)

\* merchant names: tests/test_categories.py:25-105, tests/test.py:67-73 and some
\* that no keyword list knows
MerchantSamples == {
    "Domino's Pizza", "Amazon India", "Netflix", "Uber", "Apollo Pharmacy",
    "Airtel Recharge", "Nykaa Beauty", "Amazon Prime Subscription",
    "Unknown Merchant XYZ", "Random Store 123", "Zerodha", "", "QQ" }

\* what response.text can be: a category, a category in another case or wrapped
\* in words or white space, part of a category, nothing, and text that names none
ResponseSamples == {
    "Shopping", "Food and Drinks", "Others", "  Healthcare\n", "shopping",
    "Category: Travel and Transport", "Food", "Bills", "", "   ",
    "I am not sure", "Pets", "Util", "Entertainment and Shopping" }

GeminiBehaviours == {GeminiRaises} \cup {GeminiText(t) : t \in ResponseSamples}

CatIdle == [merchant_name |-> "", api_key |-> FALSE, gemini |-> GeminiRaises, out |-> NotRun]

\* the calls of the model, before they are made
CatInputs ==
    {[merchant_name |-> m, api_key |-> k, gemini |-> g, out |-> NotRun] :
        m \in MerchantSamples, k \in BOOLEAN, g \in GeminiBehaviours}

\* the call is made: categorizer.py:37-90 from entry to return
Categorize ==
    /\ cat.out.kind = "none"
    /\ cat' = [cat EXCEPT !.out = categorize_merchant(cat.merchant_name, cat.api_key,
                                                     cat.gemini)]
    /\ UNCHANGED <<transactions, splits, nextId, run, result, resp, call, alloc,
                 parse, monitor>>


\* tests/test_categories.py:25-105  test_cases: the merchants of the test table
\* under the category the test expects for them
test_cases == <<
    [category |-> "Food and Drinks",
     merchants |-> <<"Domino's Pizza India", "Starbucks Coffee", "Swiggy", "Zomato",
                     "McDonald's">>],
    [category |-> "Groceries",
     merchants |-> <<"BigBasket", "Blinkit", "DMart", "Reliance Fresh", "JioMart">>],
    [category |-> "Shopping",
     merchants |-> <<"Amazon India", "Flipkart", "Myntra", "Croma Electronics",
                     "Lenskart">>],
    [category |-> "Entertainment",
     merchants |-> <<"Netflix", "BookMyShow", "PVR Cinemas", "Spotify",
                     "Disney+ Hotstar">>],
    [category |-> "Travel and Transport",
     merchants |-> <<"Uber India", "Ola Cabs", "IndiGo Airlines", "MakeMyTrip",
                     "Indian Oil Petrol Pump">>],
    [category |-> "Bills and Utilities",
     merchants |-> <<"Airtel Recharge", "Jio Prepaid", "BSES Electricity Bill",
                     "Tata Sky DTH", "Broadband Bill">>],
    [category |-> "Healthcare",
     merchants |-> <<"Apollo Pharmacy", "1mg", "Fortis Hospital", "Medplus",
                     "PharmEasy">>],
    [category |-> "Education",
     merchants |-> <<"Byju's", "Unacademy", "Udemy", "School Fees Payment",
                     "Crossword Bookstore">>],
    [category |-> "Investments",
     merchants |-> <<"Zerodha", "Groww", "HDFC Life Insurance", "SBI Mutual Fund",
                     "LIC Premium">>],
    [category |-> "Personal Care",
     merchants |-> <<"Cult.fit Membership", "Urban Company", "Lakme Salon",
                     "Gold's Gym", "Nykaa Beauty">>],
    [category |-> "Subscriptions",
     merchants |-> <<"Amazon Prime Subscription", "YouTube Premium",
                     "Microsoft Office 365", "LinkedIn Premium",
                     "Adobe Creative Cloud">>],
    [category |-> "Others",
     merchants |-> <<"Unknown Merchant XYZ", "Random Store 123",
                     "Miscellaneous Payment">>] >>

\* tests/test_categories.py:111-116  the calls of the test, made where only the
\* keyword fallback decides: no GEMINI_API_KEY is set, or the classifier raises
TestCalls ==
    UNION {{[merchant_name |-> test_cases[c].merchants[m], api_key |-> k,
             gemini |-> GeminiRaises, out |-> NotRun] :
               m \in 1..Len(test_cases[c].merchants), k \in BOOLEAN} :
           c \in 1..Len(test_cases)}

-----------------------------------------------------------------------------
(* parser.py: the patterns of get_regex_patterns, matched character by
   character.  Positions count from 1; a match is the span [from, to) of its
   capture group.  Patterns are matched against the lower-cased text
   (re.IGNORECASE) and the capture is cut from the text as given. *)

Least(S) == CHOOSE x \in S : \A y \in S : x <= y

Greatest(S) == CHOOSE x \in S : \A y \in S : x >= y

\* the character at position i, "" outside the text
CharAt(s, i) == IF i >= 1 /\ i <= Len(s) THEN SubSeq(s, i, i) ELSE ""

StartsWith(s, i, lit) ==
    /\ i >= 1
    /\ i + Len(lit) - 1 <= Len(s)
    /\ SubSeq(s, i, i + Len(lit) - 1) = lit

\* \d
IsDigit(c) == c \in {"0", "1", "2", "3", "4", "5", "6", "7", "8", "9"}

\* [A-Z] under re.IGNORECASE, on lower-cased text
IsLetter(c) ==
    c \in {"a", "b", "c", "d", "e", "f", "g", "h", "i", "j", "k", "l", "m",
           "n", "o", "p", "q", "r", "s", "t", "u", "v", "w", "x", "y", "z"}

\* [A-Za-z0-9\s&'-]
InMerchantClass(c) == IsLetter(c) \/ IsDigit(c) \/ IsSpace(c) \/ c \in {"&", "'", "-"}

\* \s* from position i: the first position that holds no white space
SkipSpaces(s, i) == Least({j \in i..(Len(s) + 1) : ~IsSpace(CharAt(s, j))})

\* \d* from position i
SkipDigits(s, i) == Least({j \in i..(Len(s) + 1) : ~IsDigit(CharAt(s, j))})

\* [A-Za-z0-9\s&'-]* from position i
SkipMerchantClass(s, i) == Least({j \in i..(Len(s) + 1) : ~InMerchantClass(CharAt(s, j))})

\* (?:,\d+)* from position e
RECURSIVE SkipCommaGroups(_, _)
SkipCommaGroups(s, e) ==
    IF CharAt(s, e) = "," /\ IsDigit(CharAt(s, e + 1))
    THEN SkipCommaGroups(s, SkipDigits(s, e + 1))
    ELSE e

\* (\d+(?:,\d+)*(?:\.\d{2})?) with a digit at i: where the greedy match ends
NumberEnd(s, i) ==
    LET e == SkipCommaGroups(s, SkipDigits(s, i))
    IN  IF CharAt(s, e) = "." /\ IsDigit(CharAt(s, e + 1)) /\ IsDigit(CharAt(s, e + 2))
        THEN e + 3
        ELSE e

\* (?:Rs\.?\s*|₹|Rupees\s+)\s*(\d  at position i: where the numeral starts, 0 when
\* the pattern does not match at i
MarkerNumber(s, i) ==
    LET j == IF StartsWith(s, i, "rs")
             THEN SkipSpaces(s, IF CharAt(s, i + 2) = "." THEN i + 3 ELSE i + 2)
             ELSE IF StartsWith(s, i, "₹") THEN SkipSpaces(s, i + 1)
             ELSE IF StartsWith(s, i, "rupees") /\ IsSpace(CharAt(s, i + 6))
             THEN SkipSpaces(s, i + 6)
             ELSE 0
    IN  IF IsDigit(CharAt(s, j)) THEN j ELSE 0

\* (?:sent|transferred)\s+(?:Rs\.?\s*|₹|Rupees\s+)?\s*(\d+(?:,\d+)*(?:\.\d{2})?)\s+
\* at position i: the numeral must be followed by white space
SentNumber(s, i) ==
    LET e == IF StartsWith(s, i, "sent") THEN i + 4
             ELSE IF StartsWith(s, i, "transferred") THEN i + 11 ELSE 0
        w == SkipSpaces(s, e)
        j == IF e = 0 \/ w = e THEN 0
             ELSE IF MarkerNumber(s, w) # 0 THEN MarkerNumber(s, w)
             ELSE IF IsDigit(CharAt(s, w)) THEN w ELSE 0
    IN  IF j # 0 /\ IsSpace(CharAt(s, NumberEnd(s, j))) THEN j ELSE 0

\* [:\s]* from position i
SkipColonsAndSpaces(s, i) ==
    Least({j \in i..(Len(s) + 1) : ~(CharAt(s, j) = ":" \/ IsSpace(CharAt(s, j)))})

\* (?:Amount|Amt)[:\s]*(?:Rs\.?\s*|₹|Rupees\s+)\s*(\d  at position i
AmountLabelNumber(s, i) ==
    IF StartsWith(s, i, "amount") THEN MarkerNumber(s, SkipColonsAndSpaces(s, i + 6))
    ELSE IF StartsWith(s, i, "amt") THEN MarkerNumber(s, SkipColonsAndSpaces(s, i + 3))
    ELSE 0

\* (?:transaction|payment)\s+of\s+(?:Rs\.?\s*|₹|Rupees\s+)\s*(\d  at position i
OfNumber(s, i) ==
    LET e == IF StartsWith(s, i, "transaction") THEN i + 11
             ELSE IF StartsWith(s, i, "payment") THEN i + 7 ELSE 0
        w == SkipSpaces(s, e)
        v == SkipSpaces(s, w + 2)
    IN  IF e # 0 /\ w > e /\ StartsWith(s, w, "of") /\ v > w + 2
        THEN MarkerNumber(s, v)
        ELSE 0

NoMatch == [found |-> FALSE, from |-> 0, to |-> 0]

Match(from, to) == [found |-> TRUE, from |-> from, to |-> to]

\* where the numeral of the amount pattern of this kind starts when the pattern
\* is tried at position i
NumberAt(amount, s, i) ==
    CASE amount = "currency" -> MarkerNumber(s, i)
      [] amount = "sent" -> SentNumber(s, i)
      [] amount = "label" -> AmountLabelNumber(s, i)
      [] amount = "of" -> OfNumber(s, i)

\* the numeral that starts at position j
NumberFrom(s, j) == Match(j, NumberEnd(s, j))

\* numeral[i]: where the numeral starts when the pattern is tried at i, or 0;
\* the match at the least such i
FirstNumber(s, numeral) ==
    LET starts == {i \in DOMAIN numeral : numeral[i] # 0}
    IN  IF starts = {} THEN NoMatch ELSE NumberFrom(s, numeral[Least(starts)])

\* pattern_set['amount'].search(full_text): the leftmost match
AmountSearch(amount, s) == FirstNumber(s, [i \in 1..Len(s) |-> NumberAt(amount, s, i)])

\* matches[i]: the outcome of the i-th try; the first that found something, or
\* none
FirstMatch(matches, none) ==
    LET found == {i \in DOMAIN matches : matches[i].found}
    IN  IF found = {} THEN none ELSE matches[Least(found)]

\* (?:\s+(?:at|on|dated)|\.|$) at position q, for the closing words of the pattern
Closes(s, q, words) ==
    \/ q = Len(s) + 1
    \/ q = Len(s) /\ CharAt(s, q) = "\n"
    \/ CharAt(s, q) = "."
    \/ /\ IsSpace(CharAt(s, q))
       /\ \E k \in 1..Len(words) : StartsWith(s, SkipSpaces(s, q), words[k])

ClosingWords == <<"at", "on", "dated">>

GenericClosingWords == <<"on", "dated", "transaction", "at">>

\* the captures [c, q) the pattern allows after a key phrase that ends before e:
\* \s+ ends before c, no later than w, the end of the white space; the capture
\* stays in the merchant class, which ends before r, and a closing follows at q
Captures(s, e, w, r) ==
    {p \in ((e + 1)..w) \X ((e + 2)..r) : p[2] > p[1] /\ Closes(s, p[2], ClosingWords)}

\* \s+ is greedy and the capture is lazy: the latest start, then the earliest end
ShortestCapture(captures) ==
    IF captures = {} THEN NoMatch
    ELSE LET p == CHOOSE p \in captures : \A o \in captures :
                      p[1] > o[1] \/ (p[1] = o[1] /\ p[2] <= o[2])
         IN  Match(p[1], p[2])

\* \s+([A-Za-z0-9\s&'-]+?)(?:\s+(?:at|on|dated)|\.|$) from position e, the end of
\* the key phrase: \s+ gives back white space only when it must, the capture is
\* the shortest that a closing follows
CaptureAfter(s, e) ==
    ShortestCapture(Captures(s, e, SkipSpaces(s, e), SkipMerchantClass(s, SkipSpaces(s, e))))

\* the merchant pattern with these key phrases, tried at position i
KeyPhraseAt(keywords, s, i) ==
    FirstMatch([n \in 1..Len(keywords) |->
                   IF StartsWith(s, i, keywords[n])
                   THEN CaptureAfter(s, i + Len(keywords[n]))
                   ELSE NoMatch],
               NoMatch)

\* ([A-Z][A-Za-z0-9\s&'-]{2,30}?)(?:\s+(?:on|dated|transaction|at)|\.|$) tried at
\* position i
GenericAt(s, i) ==
    LET ends == {q \in (i + 3)..Min(i + 31, SkipMerchantClass(s, i + 1)) :
                    Closes(s, q, GenericClosingWords)}
    IN  IF ~IsLetter(CharAt(s, i)) \/ ends = {} THEN NoMatch
        ELSE Match(i, Least(ends))

MerchantAt(keywords, s, i) ==
    IF Len(keywords) = 0 THEN GenericAt(s, i) ELSE KeyPhraseAt(keywords, s, i)

\* pattern_set['merchant'].search(full_text): the leftmost match
MerchantSearch(keywords, s) ==
    FirstMatch([i \in 1..Len(s) |-> MerchantAt(keywords, s, i)], NoMatch)

\* parser.py:11-69: the seven rule pairs in list order.  amount: which amount
\* pattern; keywords: the key phrases of the merchant pattern in the order of
\* its alternation, none for the generic pattern.
get_regex_patterns == <<
    [name |-> "spent_at", amount |-> "currency",               \* lines 20-24
     keywords |-> <<"spent at", "paid to", "at">>],
    [name |-> "debited_to", amount |-> "currency",             \* lines 27-31
     keywords |-> <<"debited to", "credited to", "to">>],
    [name |-> "sent_to", amount |-> "sent",                    \* lines 34-38
     keywords |-> <<"to", "at">>],
    [name |-> "amount_payment", amount |-> "label",            \* lines 41-45
     keywords |-> <<"payment to", "paid to">>],
    [name |-> "simple_to_at", amount |-> "currency",           \* lines 48-52
     keywords |-> <<"to", "at", "from">>],
    [name |-> "transaction_of", amount |-> "of",               \* lines 55-59
     keywords |-> <<"at", "to", "from">>],
    [name |-> "generic", amount |-> "currency",                \* lines 62-66
     keywords |-> <<>>] >>

-----------------------------------------------------------------------------
(* parser.py: from the matches to the fields *)

DigitValue(c) == CHOOSE d \in 0..9 : CharAt("0123456789", d + 1) = c

\* the digits of str read as a decimal numeral, commas passed over
\* (amount_str.replace(',', ''))
RECURSIVE DigitsValue(_, _)
DigitsValue(str, acc) ==
    IF Len(str) = 0 THEN acc
    ELSE IF CharAt(str, 1) = "," THEN DigitsValue(SubSeq(str, 2, Len(str)), acc)
    ELSE DigitsValue(SubSeq(str, 2, Len(str)), 10 * acc + DigitValue(CharAt(str, 1)))

\* float(amount_str.replace(',', '')), in paise: a numeral with at most two
\* decimals
AmountOf(amount_str) ==
    IF Len(amount_str) > 3 /\ CharAt(amount_str, Len(amount_str) - 2) = "."
    THEN 100 * DigitsValue(SubSeq(amount_str, 1, Len(amount_str) - 3), 0)
         + DigitsValue(SubSeq(amount_str, Len(amount_str) - 1, Len(amount_str)), 0)
    ELSE 100 * DigitsValue(amount_str, 0)

\* re.sub(r'\s+', ' ', merchant)
RECURSIVE CollapseSpaces(_)
CollapseSpaces(str) ==
    IF Len(str) = 0 THEN ""
    ELSE IF IsSpace(CharAt(str, 1))
    THEN " " \o CollapseSpaces(lstrip(str))
    ELSE CharAt(str, 1) \o CollapseSpaces(SubSeq(str, 2, Len(str)))

\* merchant.strip('.,;:-')
RECURSIVE StripPunctuation(_)
StripPunctuation(str) ==
    IF Len(str) > 0 /\ CharAt(str, 1) \in {".", ",", ";", ":", "-"}
    THEN StripPunctuation(SubSeq(str, 2, Len(str)))
    ELSE IF Len(str) > 0 /\ CharAt(str, Len(str)) \in {".", ",", ";", ":", "-"}
    THEN StripPunctuation(SubSeq(str, 1, Len(str) - 1))
    ELSE str

\* parser.py:155-159
CleanMerchant(captured) == StripPunctuation(CollapseSpaces(strip(captured)))

-----------------------------------------------------------------------------
(* parser.py: extract_date_from_text *)

\* datetime.now().strftime('%Y-%m-%d') on the day the text is parsed
Today == "2025-10-20"

NoDate == [found |-> FALSE, groups |-> <<"", "", "">>]

DateMatch(a, b, c) == [found |-> TRUE, groups |-> <<a, b, c>>]

\* \d{n} at position i
DigitsAt(s, i, n) == \A j \in i..(i + n - 1) : IsDigit(CharAt(s, j))

IsDateSeparator(c) == c \in {"/", "-"}

\* (\d{1,2})[/-](\d{1,2})[/-](\d{4}) tried at position i: each \d{1,2} takes two
\* digits if the rest then matches, else one
DayFirstAt(s, i) ==
    LET fits == {p \in {1, 2} \X {1, 2} :
                    /\ DigitsAt(s, i, p[1])
                    /\ IsDateSeparator(CharAt(s, i + p[1]))
                    /\ DigitsAt(s, i + p[1] + 1, p[2])
                    /\ IsDateSeparator(CharAt(s, i + p[1] + 1 + p[2]))
                    /\ DigitsAt(s, i + p[1] + p[2] + 2, 4)}
    IN  IF fits = {} THEN NoDate
        ELSE LET p == CHOOSE p \in fits : \A o \in fits :
                          p[1] > o[1] \/ (p[1] = o[1] /\ p[2] >= o[2])
                 m == i + p[1] + 1
                 y == m + p[2] + 1
             IN  DateMatch(SubSeq(s, i, i + p[1] - 1), SubSeq(s, m, m + p[2] - 1),
                           SubSeq(s, y, y + 3))

\* (\d{4})[/-](\d{1,2})[/-](\d{1,2}) tried at position i
YearFirstAt(s, i) ==
    LET fits == {n \in {1, 2} :
                    /\ DigitsAt(s, i, 4)
                    /\ IsDateSeparator(CharAt(s, i + 4))
                    /\ DigitsAt(s, i + 5, n)
                    /\ IsDateSeparator(CharAt(s, i + 5 + n))
                    /\ IsDigit(CharAt(s, i + 6 + n))}
    IN  IF fits = {} THEN NoDate
        ELSE LET n == Greatest(fits)
                 d == i + 6 + n
             IN  DateMatch(SubSeq(s, i, i + 3), SubSeq(s, i + 5, i + 4 + n),
                           SubSeq(s, d, IF IsDigit(CharAt(s, d + 1)) THEN d + 1 ELSE d))

\* parser.py:107-112
months == [jan |-> "01", feb |-> "02", mar |-> "03", apr |-> "04", may |-> "05",
           jun |-> "06", jul |-> "07", aug |-> "08", sep |-> "09", oct |-> "10",
           nov |-> "11", dec |-> "12"]

SkipLetters(s, i) == Least({j \in i..(Len(s) + 1) : ~IsLetter(CharAt(s, j))})

\* (\d{1,2})\s+(Jan|...|Dec)[a-z]*\s+(\d{4}) tried at position i
DayMonthNameAt(s, i) ==
    LET fits == {n \in {1, 2} :
                    LET w == SkipSpaces(s, i + n)
                        e == SkipLetters(s, w)
                        y == SkipSpaces(s, e)
                    IN  /\ DigitsAt(s, i, n)
                        /\ w > i + n
                        /\ \E name \in DOMAIN months : StartsWith(s, w, name)
                        /\ y > e
                        /\ DigitsAt(s, y, 4)}
    IN  IF fits = {} THEN NoDate
        ELSE LET n == Greatest(fits)
                 w == SkipSpaces(s, i + n)
                 e == SkipLetters(s, w)
                 y == SkipSpaces(s, SkipLetters(s, w))
             IN  DateMatch(SubSeq(s, i, i + n - 1), SubSeq(s, w, e - 1), SubSeq(s, y, y + 3))

DateAt(shape, s, i) ==
    CASE shape = 1 -> DayFirstAt(s, i)
      [] shape = 2 -> YearFirstAt(s, i)
      [] shape = 3 -> DayMonthNameAt(s, i)

\* re.search(pattern, text, re.IGNORECASE) for the date pattern of this shape
DateSearch(shape, s) == FirstMatch([i \in 1..Len(s) |-> DateAt(shape, s, i)], NoDate)

\* str.zfill(2)
zfill2(str) == IF Len(str) < 2 THEN "0" \o str ELSE str

\* faulty variant of FormatDate: a date that starts with two numbers is read
\* month first
FormatDateMonthFirst(groups) ==
    IF DigitsAt(groups[1], 1, Len(groups[1])) /\ Len(groups[1]) = 4
    THEN groups[1] \o "-" \o zfill2(groups[2]) \o "-" \o zfill2(groups[3])
    ELSE IF DigitsAt(groups[2], 1, Len(groups[2]))
    THEN groups[3] \o "-" \o zfill2(groups[1]) \o "-" \o zfill2(groups[2])
    ELSE groups[3] \o "-" \o months[SubSeq(groups[2], 1, 3)] \o "-" \o zfill2(groups[1])

\* parser.py:91-114: the three groups put in order
FormatDate(groups) ==
    IF DigitsAt(groups[1], 1, Len(groups[1])) /\ Len(groups[1]) = 4
    THEN groups[1] \o "-" \o zfill2(groups[2]) \o "-" \o zfill2(groups[3])
    ELSE IF DigitsAt(groups[2], 1, Len(groups[2]))
    THEN groups[3] \o "-" \o zfill2(groups[2]) \o "-" \o zfill2(groups[1])
    ELSE groups[3] \o "-" \o months[SubSeq(groups[2], 1, 3)] \o "-" \o zfill2(groups[1])

\* parser.py:89-119: the match put in order, today's date when nothing matched
DateOf(date_match) ==
    IF date_match.found THEN FormatDate(date_match.groups) ELSE Today

\* faulty variant of extract_date_from_text: the match that starts first in the
\* text decides, whichever pattern it is of
extract_date_leftmost(text) ==
    DateOf(FirstMatch([i \in 1..Len(text) |->
                FirstMatch([n \in 1..3 |-> DateAt(n, lower(text), i)], NoDate)], NoDate))

\* parser.py:72-119: the first of the three patterns that matches decides
extract_date_from_text(text) ==
    DateOf(FirstMatch([n \in 1..3 |-> DateSearch(n, lower(text))], NoDate))

-----------------------------------------------------------------------------
(* parser.py: parse_transaction_from_email *)

\* None
NotFound == [merchant |-> "", amount |-> 0, date |-> ""]

RECURSIVE TryRules(_, _, _, _, _)

\* parser.py:159-163: with both fields of rule k the loop ends, else it goes on
\* with what the rule found
AfterMerchantSearch(k, full_text, s, found_merchant, found_amount) ==
    IF found_merchant # "" /\ found_amount # 0
    THEN [merchant |-> found_merchant, amount |-> found_amount]
    ELSE TryRules(k + 1, full_text, s, found_merchant, found_amount)

\* parser.py:152-159: rule k has found an amount; its merchant pattern is tried
AfterAmount(k, full_text, s, merchant, found_amount, merchant_match) ==
    IF ~merchant_match.found
    THEN TryRules(k + 1, full_text, s, merchant, found_amount)
    ELSE AfterMerchantSearch(k, full_text, s,
             CleanMerchant(SubSeq(full_text, merchant_match.from, merchant_match.to - 1)),
             found_amount)

\* parser.py:145-150: the amount pattern of rule k has been tried
AfterAmountSearch(k, full_text, s, merchant, amount, amount_match) ==
    IF ~amount_match.found
    THEN TryRules(k + 1, full_text, s, merchant, amount)
    ELSE AfterAmount(k, full_text, s, merchant,
             AmountOf(SubSeq(full_text, amount_match.from, amount_match.to - 1)),
             MerchantSearch(get_regex_patterns[k].keywords, s))

\* faulty variant of TryRules: the loop does not stop at the first rule that
\* gives both fields, the last one that does decides
RECURSIVE TryRulesToTheEnd(_, _, _, _, _)
TryRulesToTheEnd(k, full_text, s, merchant, amount) ==
    IF k > Len(get_regex_patterns) THEN [merchant |-> merchant, amount |-> amount]
    ELSE LET amount_match == AmountSearch(get_regex_patterns[k].amount, s)
             merchant_match == MerchantSearch(get_regex_patterns[k].keywords, s)
         IN  IF amount_match.found /\ merchant_match.found
                /\ AmountOf(SubSeq(full_text, amount_match.from, amount_match.to - 1)) # 0
                /\ CleanMerchant(SubSeq(full_text, merchant_match.from,
                                        merchant_match.to - 1)) # ""
             THEN TryRulesToTheEnd(k + 1, full_text, s,
                      CleanMerchant(SubSeq(full_text, merchant_match.from,
                                           merchant_match.to - 1)),
                      AmountOf(SubSeq(full_text, amount_match.from, amount_match.to - 1)))
             ELSE TryRulesToTheEnd(k + 1, full_text, s, merchant, amount)

\* parser.py:142-163: the loop over the rule pairs from rule k on, s the
\* lower-cased text; merchant "" and amount 0 stand for None as well (the code
\* tests both for truth only)
TryRules(k, full_text, s, merchant, amount) ==
    IF k > Len(get_regex_patterns) THEN [merchant |-> merchant, amount |-> amount]
    ELSE AfterAmountSearch(k, full_text, s, merchant, amount,
                           AmountSearch(get_regex_patterns[k].amount, s))

\* parser.py:166-176: None unless the loop left both fields, else the fields
\* and the date of the text
TransactionOf(fields, full_text) ==
    IF fields.merchant = "" \/ fields.amount = 0 THEN NotFound
    ELSE [merchant |-> fields.merchant, amount |-> fields.amount,
          date |-> extract_date_from_text(full_text)]

\* parser.py:135-176 on the text of the mail
ParseText(full_text) ==
    TransactionOf(TryRules(1, full_text, lower(full_text), "", 0), full_text)

\* faulty variant: what the loop leaves is returned without the test of
\* parser.py:166
parse_transaction_unchecked(subject, body) ==
    LET full_text == subject \o " " \o body
        fields == TryRules(1, full_text, lower(full_text), "", 0)
    IN  [merchant |-> fields.merchant, amount |-> fields.amount,
         date |-> extract_date_from_text(full_text)]

\* parser.py:122-176
parse_transaction_from_email(subject, body) == ParseText(subject \o " " \o body)

-----------------------------------------------------------------------------
(* parser.py: one call of parse_transaction_from_email *)

\* subjects of notification mails: those of the module's own examples
\* (parser.py:182-186, tests/test.py:33-44), none, and one that holds a key
\* phrase itself
SubjectSamples == {
    "Payment Alert", "Transaction Alert", "Bank Alert", "Purchase Alert", "",
    "Debit at risk" }

\* bodies: the module's own examples, the mailbox of the pipeline, and texts in
\* which a rule matches without giving both fields
BodySamples == {
    "Rs. 450 spent at Domino's Pizza on 15 Oct 2025",
    "₹1299 debited to Amazon on 18/10/2025",
    "Amount: ₹180 Payment to Uber dated 20-10-2025",
    "₹649 to Netflix subscription",
    "Transaction of Rs 2500 at Big Bazaar",
    "Payment reminder: Rs. 450 spent at Domino's Pizza on 15 Oct 2025",
    "Rs 1299 debited to Amazon on 18/10/2025",
    "Your OTP is 1234",
    "",
    "Rs 500 at - on Monday, paid to Foo.",
    "Rs 0 spent at Foo on 1/1/2025",
    "Rs 0 spent at Foo. transferred 100 to Bar.",
    "sent 100 Rupees to Domino's",
    "Rs 1,299.50 paid to Big-Mart & Co.",
    "You sent 250 to Asha",
    "Rs 500 received",
    "₹500 ₹700",
    "Rupees 75 paid to 99 on 2025-01-05",
    "Rs.20 at  on hold",
    "Payment of Rs 1200 to Amazon",
    "Rs 0 paid to -" }

ParseIdle == [subject |-> "", body |-> "", out |-> NotRun]

\* the call is made: parser.py:122-176 from entry to return
Parse ==
    /\ parse.out.kind = "none"
    /\ parse' = [parse EXCEPT !.out =
                    Return(parse_transaction_from_email(parse.subject, parse.body))]
    /\ UNCHANGED <<transactions, splits, nextId, run, result, resp, call, alloc,
                 cat, monitor>>

-----------------------------------------------------------------------------
(* parser.py: one call of extract_date_from_text *)

\* pieces of text with a date written in them: shape is the pattern of
\* date_patterns the piece is written in (0: none), date is what its numbers
\* say when they are read in the order of that shape
DatePhrases == <<
    [text |-> "on 15/10/2025",       shape |-> 1, date |-> "2025-10-15"],
    [text |-> "dated 5-3-2024.",     shape |-> 1, date |-> "2024-03-05"],
    [text |-> "Ref 7/11/2023 12:30", shape |-> 1, date |-> "2023-11-07"],
    [text |-> "on 2025-10-15",       shape |-> 2, date |-> "2025-10-15"],
    [text |-> "(2024/3/5)",          shape |-> 2, date |-> "2024-03-05"],
    [text |-> "on 15 Oct 2025",      shape |-> 3, date |-> "2025-10-15"],
    [text |-> "5 march 2024",        shape |-> 3, date |-> "2024-03-05"],
    [text |-> "1  SEPT  2023",       shape |-> 3, date |-> "2023-09-01"],
    [text |-> "on 31/02/2025",       shape |-> 1, date |-> "2025-02-31"],
    [text |-> "Ref 45/13/2025",      shape |-> 1, date |-> "2025-13-45"],
    [text |-> "id 2025-00-99",       shape |-> 2, date |-> "2025-00-99"],
    [text |-> "29 Feb 2025",         shape |-> 3, date |-> "2025-02-29"],
    [text |-> "Rs 450 spent",        shape |-> 0, date |-> ""],
    [text |-> "15/10/25 at 10-2025", shape |-> 0, date |-> ""],
    [text |-> "",                    shape |-> 0, date |-> ""] >>

\* the call is made on the subject and the body joined as parser.py:133 joins
\* them: parser.py:72-119 from entry to return
ExtractDate ==
    /\ parse.out.kind = "none"
    /\ parse' = [parse EXCEPT !.out =
                    Return(extract_date_from_text(parse.subject \o " " \o parse.body))]
    /\ UNCHANGED <<transactions, splits, nextId, run, result, resp, call, alloc,
                 cat, monitor>>

-----------------------------------------------------------------------------
(* db.py: the transactions collection *)

Users == {"demo_user", "test_user_123"}

\* An ObjectId the server has not handed out and will not
NoId == 0

\* db.py:90-101  insert_one gives the document a fresh _id
NewTransaction(id, user_id, merchant, amount, category, date, email_subject) ==
    [id |-> id, user_id |-> user_id, merchant |-> merchant, amount |-> amount,
     category |-> category, date |-> date, email_subject |-> email_subject]

\* Faulty variant of check_duplicate_transaction: user_id is left out of the
\* query, so one user's payment hides the same payment of another user.
check_duplicate_any_user(user_id, merchant, amount, date_str) ==
    \E t \in transactions :
        /\ t.merchant = merchant
        /\ t.amount = amount
        /\ t.date = date_str

\* db.py:155-163
check_duplicate_transaction(user_id, merchant, amount, date_str) ==
    \E t \in transactions :
        /\ t.user_id = user_id
        /\ t.merchant = merchant
        /\ t.amount = amount
        /\ t.date = date_str

\* the documents a (user_id, merchant, amount, date) query finds
SameTuple(user_id, merchant, amount, date) ==
    {t \in transactions : /\ t.user_id = user_id
                          /\ t.merchant = merchant
                          /\ t.amount = amount
                          /\ t.date = date}

-----------------------------------------------------------------------------
(* parser.py and email_service.py, as process_transactions.py sees them *)

\* messages the mailbox can hold (tests/test.py:33-44, parser.py:182-183): two
\* notifications of one payment, a notification of another, and a message
\* that is no transaction
Inbox == {
    [message_id |-> "m1", subject |-> "Payment Alert",
     body |-> "Rs. 450 spent at Domino's Pizza on 15 Oct 2025"],
    [message_id |-> "m2", subject |-> "Payment Alert",
     body |-> "Payment reminder: Rs. 450 spent at Domino's Pizza on 15 Oct 2025"],
    [message_id |-> "m3", subject |-> "Transaction Alert",
     body |-> "Rs 1299 debited to Amazon on 18/10/2025"],
    [message_id |-> "m4", subject |-> "Bank Alert",
     body |-> "Your OTP is 1234"] }

\* parser.py's result for every message of Inbox
ParsedInbox == [m \in Inbox |-> parse_transaction_from_email(m.subject, m.body)]

\* the merchants parse_transaction_from_email finds in Inbox
ParsedMerchants == {"Domino's Pizza", "Amazon"}

\* what the remote classifier does during a pipeline run: it is unreachable, or
\* answers with a word that is no category
PipelineGemini == {GeminiRaises, GeminiText("Pets")}

\* process_transactions.py:160  categorize_merchant(merchant) under every
\* behaviour of the classifier in a run
CategoriesOf ==
    [m \in ParsedMerchants |->
        {categorize_merchant(m, api_key, gemini).value :
            api_key \in BOOLEAN, gemini \in PipelineGemini}]

-----------------------------------------------------------------------------
(* process_transactions.py: process_all_transactions, one message step at a time *)

\* email_monitor.py's thread and the /api/fetch-transactions handler
Runners == {"monitor", "api"}

\* email_monitor.py:18  DEFAULT_USER_ID
USER_ID == "demo_user"

IdleRun == [pc |-> "idle", user_id |-> "", emails |-> <<>>, i |-> 0,
            parsed |-> NotFound, category |-> "",
            total_processed |-> 0, total_parsed |-> 0, total_duplicates |-> 0,
            total_inserted |-> 0, total_failed |-> 0]

\* what process_all_transactions returned (lines 95-99, 106-110, 121-127, 196-203)
\* to runner r.  fault is not part of the value returned: it tells which
\* collaborator failed during that call, "none" if none did.
Result(r, success, total_new, total_failed, message) ==
    [runner |-> r, success |-> success, total_new |-> total_new,
     total_failed |-> total_failed, message |-> message, fault |-> "none"]

\* the same, returned by a call during which a collaborator failed
ResultAfter(fault, returned) == [returned EXCEPT !.fault = fault]

NoResult == Result("", FALSE, 0, 0, "none")

\* what fetch_transaction_emails can return from a mailbox: every order of up
\* to MaxBatch of its messages, none twice
Batches(mailbox) ==
    {b \in SeqUpTo(mailbox, Min(MaxBatch, NumEmails)) :
        \A i, j \in 1..Len(b) : i # j => b[i] # b[j]}

\* the mailbox holding the two notifications of one payment only
SamePayment == {m \in Inbox : m.message_id \in {"m1", "m2"}}

\* the mailbox holding the payment a client also adds by hand, and a message
\* that is no transaction
AmazonAndNoise == {m \in Inbox : m.message_id \in {"m3", "m4"}}

\* lines 92-127: connect, set up the mail service, fetch.  db_ok, service_ok:
\* whether connect_db and setup_gmail_service succeed; fetch_ok: whether
\* fetch_transaction_emails gets through to the mailbox, which then gives it a
\* batch of messages; when it does not (email_service.py:131-135, 206-208) it
\* returns [].  result is the value of the call that returned last, and is
\* cleared by a call's start.  What the monitor's thread does in the step is
\* its caller's to say.
StartRun(r, user_id, mailbox) ==
    /\ run[r].pc = "idle"
    /\ \E db_ok \in BOOLEAN, service_ok \in BOOLEAN, fetch_ok \in BOOLEAN,
          batch \in Batches(mailbox) :
         LET emails == IF fetch_ok THEN batch ELSE <<>>
         IN  IF ~db_ok
             THEN /\ result' = ResultAfter("database",
                                   Result(r, FALSE, 0, 0, "Failed to connect to database"))
                  /\ run' = run
             ELSE IF ~service_ok
             THEN /\ result' = ResultAfter("mail service",
                                   Result(r, FALSE, 0, 0, "Failed to setup Gmail service"))
                  /\ run' = run
             ELSE IF emails = <<>>
             THEN /\ result' = ResultAfter(IF fetch_ok THEN "none" ELSE "fetch",
                                   Result(r, TRUE, 0, 0, "No transaction emails found"))
                  /\ run' = run
             ELSE /\ run' = [run EXCEPT ![r] =
                        [IdleRun EXCEPT !.pc = "parse", !.user_id = user_id,
                                        !.emails = emails, !.i = 1,
                                        !.total_processed = Len(emails)]]
                  /\ result' = NoResult
    /\ UNCHANGED <<transactions, splits, nextId, resp, call, alloc, cat, parse>>

\* the loop's continue / next iteration: the next message, or the summary
NextMessage(rec) ==
    IF rec.i < Len(rec.emails)
    THEN [rec EXCEPT !.pc = "parse", !.i = rec.i + 1, !.parsed = NotFound,
                     !.category = ""]
    ELSE [rec EXCEPT !.pc = "summary", !.parsed = NotFound, !.category = ""]

\* lines 138-146
ParseEmail(r) ==
    /\ run[r].pc = "parse"
    /\ LET email  == run[r].emails[run[r].i]
           parsed == ParsedInbox[email]
       IN  run' = [run EXCEPT ![r] =
              IF parsed = NotFound
              THEN NextMessage([run[r] EXCEPT !.total_failed = @ + 1])
              ELSE [run[r] EXCEPT !.pc = "check", !.parsed = parsed,
                                  !.total_parsed = @ + 1]]
    /\ UNCHANGED <<transactions, splits, nextId, result, resp, call, alloc, cat,
                 parse, monitor>>

\* faulty variant of CheckDuplicate: a duplicate is counted and the message
\* goes on to the categorizer all the same
CheckDuplicateCountsOnly(r) ==
    /\ run[r].pc = "check"
    /\ LET p == run[r].parsed
       IN  run' = [run EXCEPT ![r] =
              IF check_duplicate_transaction(run[r].user_id, p.merchant, p.amount, p.date)
              THEN [run[r] EXCEPT !.pc = "categorize", !.total_duplicates = @ + 1]
              ELSE [run[r] EXCEPT !.pc = "categorize"]]
    /\ UNCHANGED <<transactions, splits, nextId, result, resp, call, alloc, cat,
                 parse, monitor>>

\* lines 149-157
CheckDuplicate(r) ==
    /\ run[r].pc = "check"
    /\ LET p == run[r].parsed
       IN  run' = [run EXCEPT ![r] =
              IF check_duplicate_transaction(run[r].user_id, p.merchant, p.amount, p.date)
              THEN NextMessage([run[r] EXCEPT !.total_duplicates = @ + 1])
              ELSE [run[r] EXCEPT !.pc = "categorize"]]
    /\ UNCHANGED <<transactions, splits, nextId, result, resp, call, alloc, cat,
                 parse, monitor>>

\* line 160
CategorizeParsed(r) ==
    /\ run[r].pc = "categorize"
    /\ \E category \in CategoriesOf[run[r].parsed.merchant] :
         run' = [run EXCEPT ![r] = [run[r] EXCEPT !.pc = "insert",
                                                  !.category = category]]
    /\ UNCHANGED <<transactions, splits, nextId, result, resp, call, alloc, cat,
                 parse, monitor>>

\* lines 164-178
InsertParsed(r) ==
    /\ run[r].pc = "insert"
    /\ nextId <= MaxId
    /\ LET p == run[r].parsed
           email == run[r].emails[run[r].i]
       IN  transactions' = transactions \cup
              {NewTransaction(nextId, run[r].user_id, p.merchant, p.amount,
                              run[r].category, p.date, email.subject)}
    /\ nextId' = nextId + 1
    /\ run' = [run EXCEPT ![r] = NextMessage([run[r] EXCEPT !.total_inserted = @ + 1])]
    /\ UNCHANGED <<splits, result, resp, call, alloc, cat, parse, monitor>>

\* lines 188-203
ReturnSummary(r) ==
    /\ run[r].pc = "summary"
    /\ result' = Result(r, TRUE, run[r].total_inserted, run[r].total_failed,
                        "Successfully processed")
    /\ run' = [run EXCEPT ![r] = IdleRun]
    /\ UNCHANGED <<transactions, splits, nextId, resp, call, alloc, cat, parse, monitor>>

\* The steps of a run in progress
RunStep(r) ==
    \/ ParseEmail(r)
    \/ CheckDuplicate(r)
    \/ CategorizeParsed(r)
    \/ InsertParsed(r)
    \/ ReturnSummary(r)

\* faulty variant of RaiseInLoop: the exception ends the batch
RaiseEndsLoop(r) ==
    /\ run[r].pc \in {"parse", "check", "categorize", "insert"}
    /\ run' = [run EXCEPT ![r] = [run[r] EXCEPT !.pc = "summary", !.total_failed = @ + 1]]
    /\ UNCHANGED <<transactions, splits, nextId, result, resp, call, alloc, cat,
                 parse, monitor>>

\* lines 180-183: a statement of the loop body raises before the message is
\* counted; the handler counts the message as failed and goes on
RaiseInLoop(r) ==
    /\ run[r].pc \in {"parse", "check", "categorize", "insert"}
    /\ run' = [run EXCEPT ![r] = NextMessage([run[r] EXCEPT !.total_failed = @ + 1])]
    /\ UNCHANGED <<transactions, splits, nextId, result, resp, call, alloc, cat,
                 parse, monitor>>

\* lines 149-157 with db.py:165-167: find_one raises and
\* check_duplicate_transaction returns False
CheckDuplicateFails(r) ==
    /\ run[r].pc = "check"
    /\ run' = [run EXCEPT ![r] = [run[r] EXCEPT !.pc = "categorize"]]
    /\ UNCHANGED <<transactions, splits, nextId, result, resp, call, alloc, cat,
                 parse, monitor>>

\* lines 164-178 with db.py:102-104: insert_one raises and insert_transaction
\* returns None
InsertFails(r) ==
    /\ run[r].pc = "insert"
    /\ run' = [run EXCEPT ![r] = NextMessage([run[r] EXCEPT !.total_failed = @ + 1])]
    /\ UNCHANGED <<transactions, splits, nextId, result, resp, call, alloc, cat,
                 parse, monitor>>

\* The steps of a run in progress during which a collaborator fails
FaultStep(r) ==
    \/ RaiseInLoop(r)
    \/ CheckDuplicateFails(r)
    \/ InsertFails(r)

\* email_monitor.py:50 runs the pipeline for USER_ID, main.py:161 for the
\* request's user
RunUser(r) == IF r = "monitor" THEN {USER_ID} ELSE Users

\* a run that starts when no other run is in progress
StartRunAlone(r, mailbox) ==
    /\ \A q \in Runners : run[q].pc = "idle"
    /\ \E u \in RunUser(r) : StartRun(r, u, mailbox)
    /\ UNCHANGED monitor

\* a run for USER_ID that starts whatever the other runner does
StartRunAnyTime(r, mailbox) == StartRun(r, USER_ID, mailbox) /\ UNCHANGED monitor


-----------------------------------------------------------------------------
(* email_monitor.py: the monitoring thread *)

\* email_monitor.py:17  seconds between two checks
CHECK_INTERVAL == 45

\* monitor_emails runs as the daemon thread main.py:91 starts, to which
\* KeyboardInterrupt (lines 73-76) is not delivered.
\* monitoring_active (line 21) and the thread of monitor_emails: pc is where the
\* thread is ("none": not started), left the iterations its sleep loop still
\* has, further the runs it started since stop_monitoring was called (counted
\* up to 2)
MonitorIdle == [active |-> TRUE, pc |-> "none", left |-> 0, further |-> 0]

\* lines 83-89  start_monitoring_thread, called once (main.py:85-92)
start_monitoring_thread ==
    /\ monitor.pc = "none"
    /\ monitor' = [monitor EXCEPT !.pc = "while"]
    /\ UNCHANGED <<transactions, splits, nextId, run, result, resp, call, alloc, cat, parse>>

\* lines 92-98  stop_monitoring, called when there is a thread (main.py:122-125)
stop_monitoring ==
    /\ monitor.pc # "none"
    /\ monitor' = [monitor EXCEPT !.active = FALSE]
    /\ UNCHANGED <<transactions, splits, nextId, run, result, resp, call, alloc, cat, parse>>

\* faulty variant of WhileTest: the loop does not look at monitoring_active
WhileTrue ==
    /\ monitor.pc = "while"
    /\ monitor' = [monitor EXCEPT !.pc = "try"]
    /\ UNCHANGED <<transactions, splits, nextId, run, result, resp, call, alloc, cat, parse>>

\* line 40  while monitoring_active
WhileTest ==
    /\ monitor.pc = "while"
    /\ monitor' = [monitor EXCEPT !.pc = IF monitor.active THEN "try" ELSE "exited"]
    /\ UNCHANGED <<transactions, splits, nextId, run, result, resp, call, alloc, cat, parse>>

\* lines 42-50  the check is announced and process_all_transactions(USER_ID) is
\* called; it returns at once or starts on its messages
CallPipeline ==
    /\ monitor.pc = "try"
    /\ StartRun("monitor", USER_ID, Inbox)
    /\ monitor' = [monitor EXCEPT !.pc = "run",
                                  !.further = IF monitor.active THEN @ ELSE Min(@ + 1, 2)]

\* lines 52-66  process_all_transactions has returned: the result is reported
\* and, if monitoring is still active, the sleep loop is entered
PipelineReturned ==
    /\ monitor.pc = "run"
    /\ run["monitor"].pc = "idle"
    /\ monitor' = IF monitor.active
                  THEN [monitor EXCEPT !.pc = "sleep", !.left = CHECK_INTERVAL]
                  ELSE [monitor EXCEPT !.pc = "while"]
    /\ UNCHANGED <<transactions, splits, nextId, run, result, resp, call, alloc, cat, parse>>

\* lines 68-71  one iteration of the sleep loop: it breaks when monitoring is
\* no longer active, else sleeps a second; after the last one the while
\* statement is next
SleepTick ==
    /\ monitor.pc = "sleep"
    /\ monitor' = IF monitor.left = 0 \/ ~monitor.active
                  THEN [monitor EXCEPT !.pc = "while", !.left = 0]
                  ELSE [monitor EXCEPT !.left = @ - 1]
    /\ UNCHANGED <<transactions, splits, nextId, run, result, resp, call, alloc, cat, parse>>

\* lines 77-80  a statement of the try block raises, before the call or after
\* it returned: the thread goes to time.sleep(60)
LoopRaises ==
    /\ \/ monitor.pc = "try"
       \/ monitor.pc = "run" /\ run["monitor"].pc = "idle"
    /\ monitor' = [monitor EXCEPT !.pc = "except"]
    /\ UNCHANGED <<transactions, splits, nextId, run, result, resp, call, alloc, cat, parse>>

\* line 80  time.sleep(60) is over
BackOffOver ==
    /\ monitor.pc = "except"
    /\ monitor' = [monitor EXCEPT !.pc = "while"]
    /\ UNCHANGED <<transactions, splits, nextId, run, result, resp, call, alloc, cat, parse>>

\* the steps the thread takes by itself once it runs
MonitorThread ==
    \/ WhileTest
    \/ CallPipeline
    \/ RunStep("monitor")
    \/ PipelineReturned
    \/ SleepTick
    \/ BackOffOver

-----------------------------------------------------------------------------
(* main.py and db.py: the request handlers that write the store *)

\* the detail of an answer that carries none
NoDetail == [type |-> "none", what |-> "", a |-> 0, b |-> 0]

\* what a handler answered: the operation, the caller (of a split call), the
\* HTTP status (or 200 / 400 for a bare db call), the id it names and the detail
\* of an error answer
Response(op, who, status, id) ==
    [op |-> op, who |-> who, status |-> status, id |-> id, detail |-> NoDetail]

NoResponse == Response("none", "", 0, NoId)

\* main.py:352-358  datetime.strptime(request.date, "%Y-%m-%d") on the dates a
\* request of the model carries
DateSamples == {"2025-10-18", "18/10/2025"}

IsIsoDate(d) == d = "2025-10-18"

\* category of an add-transaction request: one of the fixed set and one of the
\* older names db.py:311 still uses
CategorySamples == {"Shopping", "Food & Dining"}

\* main.py:331-383  POST /api/add-transaction
AddTransaction(user_id, merchant, amount, category, date) ==
    /\ IF category \notin SeqToSet(get_valid_categories)               \* lines 344-349
       THEN /\ resp' = Response("add_transaction", "", 422, NoId)
            /\ UNCHANGED <<transactions, nextId>>
       ELSE IF ~IsIsoDate(date)                                        \* lines 352-358
       THEN /\ resp' = Response("add_transaction", "", 422, NoId)
            /\ UNCHANGED <<transactions, nextId>>
       ELSE /\ nextId <= MaxId                                         \* lines 361-375
            /\ transactions' = transactions \cup
                  {NewTransaction(nextId, user_id, merchant, amount, category, date, "")}
            /\ nextId' = nextId + 1
            /\ resp' = Response("add_transaction", "", 200, nextId)
    /\ UNCHANGED <<splits, run, result, call, alloc, cat, parse, monitor>>

\* db.py:170-199 behind main.py:465-495  DELETE /api/delete-transaction
DeleteTransaction(transaction_id, user_id) ==
    /\ LET found == {t \in transactions : t.id = transaction_id /\ t.user_id = user_id}
       IN  /\ transactions' = transactions \ found
           /\ resp' = Response("delete_transaction", "",
                               IF found # {} THEN 200 ELSE 404, NoId)
    /\ UNCHANGED <<splits, nextId, run, result, call, alloc, cat, parse, monitor>>

\* db.py:310-321  demo_data, amounts in paise
demo_data == <<
    [merchant |-> "Domino's Pizza", amount |-> 45000, category |-> "Food & Dining", day |-> "05"],
    [merchant |-> "Amazon", amount |-> 129900, category |-> "Shopping & E-commerce", day |-> "08"],
    [merchant |-> "Swiggy", amount |-> 32000, category |-> "Food & Dining", day |-> "10"],
    [merchant |-> "Uber", amount |-> 18000, category |-> "Transport", day |-> "12"],
    [merchant |-> "Netflix", amount |-> 64900, category |-> "Entertainment", day |-> "15"],
    [merchant |-> "Big Bazaar", amount |-> 250000, category |-> "Shopping & E-commerce", day |-> "18"],
    [merchant |-> "Zomato", amount |-> 28000, category |-> "Food & Dining", day |-> "20"],
    [merchant |-> "Apollo Pharmacy", amount |-> 65000, category |-> "Healthcare", day |-> "22"],
    [merchant |-> "Flipkart", amount |-> 89900, category |-> "Shopping & E-commerce", day |-> "25"],
    [merchant |-> "Starbucks", amount |-> 22000, category |-> "Food & Dining", day |-> "28"] >>

\* db.py:325-341  the loop of insert_demo_transactions from item k on: store and
\* id are the collection and the next _id so far, count is inserted_count.  The
\* duplicate check of line 329 (db.py:155-163) reads the collection as the loop
\* has left it.
RECURSIVE InsertDemoItems(_, _, _, _, _, _)
InsertDemoItems(k, user_id, month, store, id, count) ==
    IF k > Len(demo_data) THEN [transactions |-> store, nextId |-> id, count |-> count]
    ELSE LET item == demo_data[k]
             date_str == month \o "-" \o item.day
             duplicate == \E t \in store : /\ t.user_id = user_id
                                           /\ t.merchant = item.merchant
                                           /\ t.amount = item.amount
                                           /\ t.date = date_str
         IN  IF duplicate
             THEN InsertDemoItems(k + 1, user_id, month, store, id, count)
             ELSE InsertDemoItems(k + 1, user_id, month,
                      store \cup {NewTransaction(id, user_id, item.merchant, item.amount,
                                                 item.category, date_str,
                                                 "Payment to " \o item.merchant)},
                      id + 1, count + 1)

\* db.py:299-348  insert_demo_transactions; it answers inserted_count
InsertDemoTransactions(user_id, month) ==
    /\ LET out == InsertDemoItems(1, user_id, month, transactions, nextId, 0)
       IN  /\ out.count > 0 => nextId <= MaxId
           /\ transactions' = out.transactions
           /\ nextId' = out.nextId
           /\ resp' = [Response("insert_demo_transactions", "", 200, NoId) EXCEPT
                          !.detail = [type |-> "inserted_count", what |-> "",
                                      a |-> out.count, b |-> 0]]
    /\ UNCHANGED <<splits, run, result, call, alloc, cat, parse, monitor>>

-----------------------------------------------------------------------------
(* db.py: the splits collection *)

\* db.py:476-488
SplitDoc(id, user_id, transaction, participants, split_method, notes) ==
    [id |-> id, user_id |-> user_id, transaction_id |-> transaction.id,
     merchant |-> transaction.merchant, total_amount |-> transaction.amount,
     category |-> transaction.category, date |-> transaction.date,
     split_method |-> split_method, participants |-> participants, notes |-> notes]

\* faulty variant of SplitsOf: the query does not filter by user_id
SplitsOfAnyUser(user_id, transaction_id) ==
    {s \in splits : s.transaction_id = transaction_id}

\* db.splits.find({"transaction_id": ..., "user_id": ...})
SplitsOf(user_id, transaction_id) ==
    {s \in splits : s.transaction_id = transaction_id /\ s.user_id = user_id}

\* db.py:462
TransactionsOf(user_id, transaction_id) ==
    {t \in transactions : t.id = transaction_id /\ t.user_id = user_id}

\* create-split requests: who takes part, how, and the note
TwoPaidBy(k, amount, pct, ratio) ==
    [i \in 1..2 |-> Participant(i, pct[i], ratio[i], IF i = k THEN amount ELSE 0)]

SplitRequests == {
    [participants |-> TwoPaidBy(1, 129900, <<NoneVal, NoneVal>>, <<NoneVal, NoneVal>>),
     split_method |-> "equal", notes |-> ""],
    [participants |-> TwoPaidBy(2, 129900, <<2500, 7500>>, <<NoneVal, NoneVal>>),
     split_method |-> "percentage", notes |-> "trip"],
    [participants |-> TwoPaidBy(1, 129900, <<NoneVal, NoneVal>>, <<1, 2>>),
     split_method |-> "ratio", notes |-> "dinner"],
    [participants |-> TwoPaidBy(1, 0, <<NoneVal, NoneVal>>, <<NoneVal, NoneVal>>),
     split_method |-> "equal", notes |-> "unpaid"],
    [participants |-> TwoPaidBy(1, 129900, <<NoneVal, NoneVal>>, <<NoneVal, NoneVal>>),
     split_method |-> "ratio", notes |-> "no ratio given"] }

\* Faulty variant of WriteSplit: the split found is not looked at, every call
\* inserts.
WriteSplitAlwaysInsert(who, existing, doc) ==
    /\ nextId <= MaxId
    /\ splits' = splits \cup {[doc EXCEPT !.id = nextId]}
    /\ nextId' = nextId + 1
    /\ resp' = Response("create_split", who, 200, nextId)

\* db.py:490-506: with the split document built, update the split found or
\* insert a new one.  existing: the split find_one returned, or {} for None.
WriteSplit(who, existing, doc) ==
    IF existing # {}
    THEN LET old == CHOOSE s \in existing : TRUE
         IN  /\ splits' = {IF s.id = old.id THEN [doc EXCEPT !.id = old.id] ELSE s :
                              s \in splits}
             /\ nextId' = nextId
             /\ resp' = Response("create_split", who, 200, old.id)
    ELSE /\ nextId <= MaxId
         /\ splits' = splits \cup {[doc EXCEPT !.id = nextId]}
         /\ nextId' = nextId + 1
         /\ resp' = Response("create_split", who, 200, nextId)

\* faulty variant: the split the transaction has is removed before the new
\* allocation is validated
CreateOrUpdateSplitRemovesFirst(user_id, transaction_id, req) ==
    /\ LET found == TransactionsOf(user_id, transaction_id)
       IN  IF found = {}
           THEN /\ resp' = Response("create_split", "", 400, NoId)
                /\ UNCHANGED <<splits, nextId>>
           ELSE LET transaction == CHOOSE t \in found : TRUE
                IN  \E fp \in FloatOracles(transaction.amount, req.participants,
                                           req.split_method) :
                      LET calc == calculate_split_amounts(transaction.amount,
                                      req.participants, req.split_method, fp)
                      IN  IF calc.kind = "raise"
                          THEN /\ resp' = Response("create_split", "", 400, NoId)
                               /\ splits' = splits \ SplitsOf(user_id, transaction_id)
                               /\ nextId' = nextId
                          ELSE \E existing \in
                                  IF SplitsOf(user_id, transaction_id) = {} THEN {{}}
                                  ELSE {{s} : s \in SplitsOf(user_id, transaction_id)} :
                                 WriteSplit("", existing,
                                            SplitDoc(NoId, user_id, transaction, calc.value,
                                                     req.split_method, req.notes))
    /\ UNCHANGED <<transactions, run, result, call, alloc, cat, parse, monitor>>

\* faulty variant: the split is allocated over the total of the payments the
\* request carries, not over the amount of the stored transaction
CreateOrUpdateSplitOfPayments(user_id, transaction_id, req) ==
    /\ LET found == TransactionsOf(user_id, transaction_id)
           paid == total_paid(req.participants)
       IN  IF found = {}
           THEN /\ resp' = Response("create_split", "", 400, NoId)
                /\ UNCHANGED <<splits, nextId>>
           ELSE LET transaction == CHOOSE t \in found : TRUE
                IN  \E fp \in FloatOracles(paid, req.participants, req.split_method) :
                      LET calc == calculate_split_amounts(paid, req.participants,
                                                         req.split_method, fp)
                      IN  IF calc.kind = "raise"
                          THEN /\ resp' = Response("create_split", "", 400, NoId)
                               /\ UNCHANGED <<splits, nextId>>
                          ELSE \E existing \in
                                  IF SplitsOf(user_id, transaction_id) = {} THEN {{}}
                                  ELSE {{s} : s \in SplitsOf(user_id, transaction_id)} :
                                 WriteSplit("", existing,
                                            SplitDoc(NoId, user_id, transaction, calc.value,
                                                     req.split_method, req.notes))
    /\ UNCHANGED <<transactions, run, result, call, alloc, cat, parse, monitor>>

\* db.py:434-515  create_or_update_split, from its first query to its return
CreateOrUpdateSplit(user_id, transaction_id, req) ==
    /\ LET found == TransactionsOf(user_id, transaction_id)
       IN  IF found = {}                                               \* lines 464-466
           THEN /\ resp' = Response("create_split", "", 400, NoId)
                /\ UNCHANGED <<splits, nextId>>
           ELSE LET transaction == CHOOSE t \in found : TRUE
                IN  \E fp \in FloatOracles(transaction.amount, req.participants,
                                           req.split_method) :
                      LET calc == calculate_split_amounts(transaction.amount,
                                      req.participants, req.split_method, fp)
                      IN  IF calc.kind = "raise"                       \* lines 508-515
                          THEN /\ resp' = Response("create_split", "", 400, NoId)
                               /\ UNCHANGED <<splits, nextId>>
                          ELSE \E existing \in
                                  IF SplitsOf(user_id, transaction_id) = {} THEN {{}}
                                  ELSE {{s} : s \in SplitsOf(user_id, transaction_id)} :
                                 WriteSplit("", existing,
                                            SplitDoc(NoId, user_id, transaction, calc.value,
                                                     req.split_method, req.notes))
    /\ UNCHANGED <<transactions, run, result, call, alloc, cat, parse, monitor>>

\* fastapi's HTTPException(status_code, detail) with a detail text
HTTPException(status_code, detail) ==
    [type |-> "HTTPException", what |-> detail, a |-> status_code, b |-> 0]

\* main.py:557-563  the except clauses of create_split_endpoint, on an exception
\* e that leaves its try block: a ValueError is answered 400 with str(e), the
\* message and its numbers; any other exception, an HTTPException the block
\* raised itself included, is answered 500 with "Server error: " and str(e)
CreateSplitAnswer(e) ==
    IF e.type = "ValueError"
    THEN [Response("create_split_endpoint", "", 400, NoId) EXCEPT !.detail = e]
    ELSE [Response("create_split_endpoint", "", 500, NoId) EXCEPT
             !.detail = [type |-> "Server error", what |-> e.what, a |-> e.a, b |-> e.b]]

\* main.py:514-563  POST /api/create-split, with the call of
\* create_or_update_split (db.py:434-515) it makes: that call catches the
\* ValueError of calculate_split_amounts and returns None (db.py:508-510)
CreateSplitEndpoint(user_id, transaction_id, req) ==
    /\ IF req.split_method \notin {"equal", "percentage", "ratio"}     \* lines 527-532
       THEN /\ resp' = CreateSplitAnswer(HTTPException(400, "Invalid split method"))
            /\ UNCHANGED <<splits, nextId>>
       ELSE LET found == TransactionsOf(user_id, transaction_id)
                failed == CreateSplitAnswer(HTTPException(400, "Failed to create split"))
            IN  IF found = {}                                   \* db.py:464-466, main.py:555
                THEN /\ resp' = failed
                     /\ UNCHANGED <<splits, nextId>>
                ELSE LET transaction == CHOOSE t \in found : TRUE
                     IN  \E fp \in FloatOracles(transaction.amount, req.participants,
                                                req.split_method) :
                           LET calc == calculate_split_amounts(transaction.amount,
                                           req.participants, req.split_method, fp)
                               doc == SplitDoc(NoId, user_id, transaction, calc.value,
                                               req.split_method, req.notes)
                               existing == SplitsOf(user_id, transaction_id)
                           IN  IF calc.kind = "raise"           \* db.py:508-515, main.py:555
                               THEN /\ resp' = failed
                                    /\ UNCHANGED <<splits, nextId>>
                               ELSE IF existing # {}            \* db.py:493-500
                               THEN \E old \in existing :
                                      /\ splits' = {IF s.id = old.id
                                                    THEN [doc EXCEPT !.id = old.id] ELSE s :
                                                    s \in splits}
                                      /\ nextId' = nextId
                                      /\ resp' = Response("create_split_endpoint", "", 200,
                                                          old.id)
                               ELSE /\ nextId <= MaxId          \* db.py:501-505
                                    /\ splits' = splits \cup {[doc EXCEPT !.id = nextId]}
                                    /\ nextId' = nextId + 1
                                    /\ resp' = Response("create_split_endpoint", "", 200,
                                                        nextId)
    /\ UNCHANGED <<transactions, run, result, call, alloc, cat, parse, monitor>>

\* db.py:518-546  get_split_by_transaction: the split find_one returns (200 and
\* its id), or None (404)
GetSplitByTransaction(user_id, transaction_id) ==
    /\ LET found == SplitsOf(user_id, transaction_id)
       IN  IF found = {}
           THEN resp' = Response("get_split", "", 404, NoId)
           ELSE \E s \in found : resp' = Response("get_split", "", 200, s.id)
    /\ UNCHANGED <<transactions, splits, nextId, run, result, call, alloc, cat,
                 parse, monitor>>

\* db.py:549-578  delete_split: delete_one removes one matching document
DeleteSplit(user_id, transaction_id) ==
    /\ LET found == SplitsOf(user_id, transaction_id)
       IN  IF found = {}
           THEN /\ splits' = splits
                /\ resp' = Response("delete_split", "", 404, NoId)
           ELSE \E s \in found :
                  /\ splits' = splits \ {s}
                  /\ resp' = Response("delete_split", "", 200, NoId)
    /\ UNCHANGED <<transactions, nextId, run, result, call, alloc, cat, parse, monitor>>

-----------------------------------------------------------------------------
(* db.py: create_or_update_split called by two requests at once, one storage
   operation at a time *)

Callers == {"c1", "c2"}

IdleCall == [pc |-> "idle", user_id |-> "", transaction_id |-> NoId,
             doc |-> <<>>, existing |-> {}]

\* lines 461-488: find the transaction, compute the shares, build the document
BeginSplit(c, user_id, transaction_id, req) ==
    /\ call[c].pc = "idle"
    /\ LET found == TransactionsOf(user_id, transaction_id)
       IN  IF found = {}
           THEN /\ resp' = Response("create_split", c, 400, NoId)
                /\ call' = call
           ELSE LET transaction == CHOOSE t \in found : TRUE
                IN  \E fp \in FloatOracles(transaction.amount, req.participants,
                                           req.split_method) :
                      LET calc == calculate_split_amounts(transaction.amount,
                                      req.participants, req.split_method, fp)
                      IN  IF calc.kind = "raise"
                          THEN /\ resp' = Response("create_split", c, 400, NoId)
                               /\ call' = call
                          ELSE /\ call' = [call EXCEPT ![c] =
                                    [pc |-> "find", user_id |-> user_id,
                                     transaction_id |-> transaction_id,
                                     doc |-> SplitDoc(NoId, user_id, transaction,
                                                      calc.value, req.split_method,
                                                      req.notes),
                                     existing |-> {}]]
                               /\ resp' = resp
    /\ UNCHANGED <<transactions, splits, nextId, run, result, alloc, cat, parse, monitor>>

\* line 491: existing_split = db.splits.find_one(...)
FindExistingSplit(c) ==
    /\ call[c].pc = "find"
    /\ LET found == SplitsOf(call[c].user_id, call[c].transaction_id)
       IN  \E existing \in IF found = {} THEN {{}} ELSE {{s} : s \in found} :
             call' = [call EXCEPT ![c] = [call[c] EXCEPT !.pc = "write",
                                                         !.existing = existing]]
    /\ UNCHANGED <<transactions, splits, nextId, run, result, resp, alloc, cat,
                 parse, monitor>>

\* lines 493-506: update_one on the split found, or insert_one
WriteFoundOrNew(c) ==
    /\ call[c].pc = "write"
    /\ WriteSplit(c, call[c].existing, call[c].doc)
    /\ call' = [call EXCEPT ![c] = IdleCall]
    /\ UNCHANGED <<transactions, run, result, alloc, cat, parse, monitor>>

-----------------------------------------------------------------------------
(* Specifications *)

\* the state after start-up: empty collections, nothing running, nothing called
Init ==
    /\ transactions = {}
    /\ splits = {}
    /\ nextId = 1
    /\ run = [r \in Runners |-> IdleRun]
    /\ result = NoResult
    /\ resp = NoResponse
    /\ call = [c \in Callers |-> IdleCall]
    /\ alloc = AllocIdle
    /\ cat = CatIdle
    /\ parse = ParseIdle
    /\ monitor = MonitorIdle

\* the manual requests of the model: one payment that the mailbox also reports
\* (Inbox m3), under either user, category and date as the client sends them
AddRequest ==
    \E user_id \in Users, category \in CategorySamples, date \in DateSamples :
        AddTransaction(user_id, "Amazon", 129900, category, date)

DeleteRequest ==
    \E transaction_id \in 1..MaxId, user_id \in Users :
        DeleteTransaction(transaction_id, user_id)

SplitRequest ==
    \E transaction_id \in 1..MaxId, user_id \in Users, req \in SplitRequests :
        CreateOrUpdateSplit(user_id, transaction_id, req)

DeleteSplitRequest ==
    \E transaction_id \in 1..MaxId, user_id \in Users :
        DeleteSplit(user_id, transaction_id)

GetSplitRequest ==
    \E transaction_id \in 1..MaxId, user_id \in Users :
        GetSplitByTransaction(user_id, transaction_id)

\* The transaction store: pipeline runs one after the other, manual adds and
\* deletes
Next ==
    \/ \E r \in Runners : StartRunAlone(r, AmazonAndNoise)
    \/ \E r \in Runners : RunStep(r)
    \/ AddRequest
    \/ DeleteRequest

Spec == Init /\ [][Next]_vars

\* the demo rows asked for, for one month
DemoRequest == InsertDemoTransactions(USER_ID, "2025-10")

\* The three ways a transaction gets into the store: the pipeline of the
\* monitor thread with its categorizer, the manual add request and the demo rows
NextInsertions ==
    \/ StartRunAlone("monitor", AmazonAndNoise)
    \/ RunStep("monitor")
    \/ AddRequest
    \/ DemoRequest

SpecInsertions == Init /\ [][NextInsertions]_vars

\* Pipeline runs only, one after the other
NextSeq ==
    \/ \E r \in Runners : StartRunAlone(r, Inbox)
    \/ \E r \in Runners : RunStep(r)

SpecSeq == Init /\ [][NextSeq]_vars

\* The monitor thread and a /api/fetch-transactions request for the same user,
\* overlapping, both fetching the notifications of one payment
NextOverlap ==
    \/ \E r \in Runners : StartRunAnyTime(r, SamePayment)
    \/ \E r \in Runners : RunStep(r)

SpecOverlap == Init /\ [][NextOverlap]_vars

\* Split requests only (and the transactions they are about), one at a time
NextSplits ==
    \/ AddRequest
    \/ DeleteRequest
    \/ SplitRequest
    \/ DeleteSplitRequest
    \/ GetSplitRequest

SpecSplits == Init /\ [][NextSplits]_vars

\* two purchases that differ in merchant, amount and category
Purchases == {
    [merchant |-> "Amazon", amount |-> 129900, category |-> "Shopping"],
    [merchant |-> "Domino's Pizza", amount |-> 45000, category |-> "Food and Drinks"] }

\* split requests for them: the payments of a request add up to the amount of
\* one purchase, so the other purchase refuses it
PurchaseSplitRequests ==
    {req \in SplitRequests : req.notes \in {"", "trip"}} \cup
    {[participants |-> TwoPaidBy(2, 45000, <<NoneVal, NoneVal>>, <<NoneVal, NoneVal>>),
      split_method |-> "equal", notes |-> "pizza"]}

AddPurchase ==
    \E p \in Purchases, date \in DateSamples :
        AddTransaction(USER_ID, p.merchant, p.amount, p.category, date)

DeletePurchase == \E transaction_id \in 1..MaxId : DeleteTransaction(transaction_id, USER_ID)

SplitPurchase ==
    \E transaction_id \in 1..MaxId, req \in PurchaseSplitRequests :
        CreateOrUpdateSplit(USER_ID, transaction_id, req)

\* One user's purchases of different amounts and the splits of them
NextPurchases ==
    \/ AddPurchase
    \/ DeletePurchase
    \/ SplitPurchase

SpecPurchases == Init /\ [][NextPurchases]_vars

\* the bodies POST /api/create-split is sent: the splits of the purchases, a
\* split by percentages that add up to 75, an equal split whose payments are
\* not the amount of either purchase, a method the endpoint does not know, and
\* a split by ratio that leaves share_ratio out (model_dump() makes it None)
EndpointRequests ==
    PurchaseSplitRequests \cup
    {req \in SplitRequests : req.notes = "no ratio given"} \cup
    {[participants |-> TwoPaidBy(1, 129900, <<2500, 5000>>, <<NoneVal, NoneVal>>),
      split_method |-> "percentage", notes |-> "three quarters"],
     [participants |-> TwoPaidBy(1, 100000, <<NoneVal, NoneVal>>, <<NoneVal, NoneVal>>),
      split_method |-> "equal", notes |-> "underpaid"],
     [participants |-> TwoPaidBy(1, 129900, <<NoneVal, NoneVal>>, <<NoneVal, NoneVal>>),
      split_method |-> "halves", notes |-> ""]}

CreateSplitRequest ==
    \E transaction_id \in 1..MaxId, req \in EndpointRequests :
        CreateSplitEndpoint(USER_ID, transaction_id, req)

\* One user's purchases and the create-split requests of the client
NextEndpoint ==
    \/ AddPurchase
    \/ DeletePurchase
    \/ CreateSplitRequest

SpecEndpoint == Init /\ [][NextEndpoint]_vars

\* the requests two clients send at once: splits that differ in method and
\* participants' shares, and one the allocator rejects
RaceRequests == {req \in SplitRequests : req.notes \in {"", "trip", "unpaid"}}

\* Two create_or_update_split calls of USER_ID in flight at once
NextSplitRace ==
    \/ AddRequest
    \/ \E c \in Callers, transaction_id \in 1..MaxId, req \in RaceRequests :
          BeginSplit(c, USER_ID, transaction_id, req)
    \/ \E c \in Callers : FindExistingSplit(c)
    \/ \E c \in Callers : WriteFoundOrNew(c)

SpecSplitRace == Init /\ [][NextSplitRace]_vars

\* the store as Init leaves it, nothing running
StoreIdle ==
    /\ transactions = {}
    /\ splits = {}
    /\ nextId = 1
    /\ run = [r \in Runners |-> IdleRun]
    /\ result = NoResult
    /\ resp = NoResponse
    /\ call = [c \in Callers |-> IdleCall]
    /\ monitor = MonitorIdle

\* calculate_split_amounts called once with any input of the model
InitAlloc ==
    /\ StoreIdle
    /\ cat = CatIdle
    /\ parse = ParseIdle
    /\ \E total_amount \in Totals, split_method \in SplitMethods,
          n \in MinParticipants..MaxParticipants :
         \E participants \in ParticipantLists(n, split_method, total_amount) :
            alloc = AllocInput(total_amount, participants, split_method)

SpecAlloc == InitAlloc /\ [][Allocate]_vars

\* categorize_merchant called once with any input of the model
InitCat == StoreIdle /\ alloc = AllocIdle /\ parse = ParseIdle /\ cat \in CatInputs

SpecCat == InitCat /\ [][Categorize]_vars

\* categorize_merchant called once with any merchant of the test table
InitTestTable == StoreIdle /\ alloc = AllocIdle /\ parse = ParseIdle /\ cat \in TestCalls

SpecTestTable == InitTestTable /\ [][Categorize]_vars

\* parse_transaction_from_email called once with any message of the model
InitParse ==
    /\ StoreIdle
    /\ alloc = AllocIdle
    /\ cat = CatIdle
    /\ \E subject \in SubjectSamples, body \in BodySamples :
          parse = [subject |-> subject, body |-> body, out |-> NotRun]

SpecParse == InitParse /\ [][Parse]_vars

\* One call of extract_date_from_text on two pieces of text
InitDates ==
    /\ StoreIdle
    /\ alloc = AllocIdle
    /\ cat = CatIdle
    /\ \E a, b \in 1..Len(DatePhrases) :
          parse = [subject |-> DatePhrases[a].text, body |-> DatePhrases[b].text,
                   out |-> NotRun]

SpecDates == InitDates /\ [][ExtractDate]_vars

\* The monitor's runs over the whole mailbox, with failing collaborators
NextFaulty ==
    \/ StartRunAlone("monitor", Inbox)
    \/ RunStep("monitor")
    \/ FaultStep("monitor")

SpecFaulty == Init /\ [][NextFaulty]_vars

\* The monitoring thread from start_monitoring_thread on, and stop_monitoring
NextMonitor ==
    \/ start_monitoring_thread
    \/ stop_monitoring
    \/ WhileTest
    \/ CallPipeline
    \/ RunStep("monitor")
    \/ PipelineReturned
    \/ SleepTick
    \/ LoopRaises
    \/ BackOffOver

\* the thread is scheduled again and again, and a run it is in goes on
SpecMonitor == Init /\ [][NextMonitor]_vars /\ WF_vars(MonitorThread)

-----------------------------------------------------------------------------
(* Properties of calculate_split_amounts (SpecAlloc) *)

\* the call of alloc has been made and returned the participants
Allocated == alloc.out.kind = "return"

NumParticipants == Len(alloc.given)

SumShares == SumSeq([i \in 1..Len(alloc.out.value) |-> alloc.out.value[i].share_amount])

SumOwed == SumSeq([i \in 1..Len(alloc.out.value) |-> alloc.out.value[i].amount_owed])

SumPaid == total_paid(alloc.given)

SumPercentages == total_percentage(alloc.given)

\* C6 as claimed: after every successful allocation the shares sum to
\* total_amount within 0.01.
C6_SharesSumWithinACent ==
    Allocated => Abs(SumShares - alloc.total_amount) <= Tolerance

\* C6 as amended: after every successful allocation the shares sum to
\* total_amount within half a cent per participant (each share is rounded on its
\* own and the remainder is handed to nobody); under the percentage method the
\* shares sum within half a cent per participant to the accepted percentage sum
\* (99.99 % .. 100.01 %) of total_amount.
C6_SharesSumWithinHalfACentEach ==
    Allocated =>
        IF alloc.split_method = "percentage"
        THEN 2 * Abs(FullPercentage * SumShares - SumPercentages * alloc.total_amount)
                <= FullPercentage * NumParticipants
        ELSE 2 * Abs(SumShares - alloc.total_amount) <= NumParticipants

\* C6: a successful equal split of 0.48 among five: 0.10 each, 0.02 more than
\* total_amount in all
C6_SharesOffByTwoCents ==
    /\ Allocated
    /\ alloc.split_method = "equal"
    /\ NumParticipants = 5
    /\ alloc.total_amount = 48
    /\ SumShares = 50

\* each participant's amount_owed is share_amount - amount_paid
OwedIsShareLessPaid ==
    \A i \in 1..Len(alloc.out.value) :
        LET p == alloc.out.value[i]
        IN  p.amount_owed = p.share_amount - Get(alloc.given[i].amount_paid, 0)

\* the spec's example: total 300, three equal participants, the first paid 300
ThreeHundredByThree ==
    /\ alloc.total_amount = 30000
    /\ alloc.split_method = "equal"
    /\ NumParticipants = 3
    /\ Get(alloc.given[1].amount_paid, 0) = 30000

\* C7 as claimed: after every successful allocation amount_owed is share_amount
\* - amount_paid, and when the amounts paid sum to total_amount the amounts owed
\* sum to 0.
C7_OwedSumsToZero ==
    Allocated =>
        /\ OwedIsShareLessPaid
        /\ SumPaid = alloc.total_amount => SumOwed = 0

\* C7 as amended: after every successful allocation amount_owed is share_amount
\* - amount_paid, so the amounts owed sum to the sum of the shares less the sum
\* paid: to 0 when the amounts paid sum to total_amount and the shares do too,
\* as in the example (total 300, three equal participants, one paid 300: owed
\* -200, +100, +100).
C7_OwedSumsToSharesLessPaid ==
    Allocated =>
        /\ OwedIsShareLessPaid
        /\ SumOwed = SumShares - SumPaid
        /\ (SumPaid = alloc.total_amount /\ SumShares = alloc.total_amount) => SumOwed = 0
        /\ ThreeHundredByThree =>
              /\ alloc.out.value[1].amount_owed = 0 - 20000
              /\ alloc.out.value[2].amount_owed = 10000
              /\ alloc.out.value[3].amount_owed = 10000

\* C7: the example has been allocated and the amounts owed sum to 0
C7_ExampleAllocated ==
    /\ Allocated
    /\ ThreeHundredByThree
    /\ Get(alloc.given[2].amount_paid, 0) = 0
    /\ alloc.out.value[1].share_amount = 10000
    /\ SumOwed = 0

\* the call failed in the percentage check
PercentageError ==
    /\ alloc.out.kind = "raise"
    /\ alloc.out.value.type = "ValueError"
    /\ alloc.out.value.what = "percentages"

\* the call failed in the paid check
PaidError ==
    /\ alloc.out.kind = "raise"
    /\ alloc.out.value.type = "ValueError"
    /\ alloc.out.value.what = "paid"

\* a percentage call made with a number (or nothing) for every share_percentage
PercentageCall ==
    /\ alloc.out.kind # "none"
    /\ alloc.split_method = "percentage"
    /\ ~HasNone(alloc.given, "percentage")

\* C8: under the percentage method the call fails with a validation error naming
\* the sum of the percentages exactly when that sum is farther than 0.01 from
\* 100; otherwise every share_amount is percentage / 100 * total_amount rounded
\* to 2 places.
C8_PercentageErrorIffFarFromHundred ==
    PercentageCall =>
        /\ PercentageError <=> Abs(SumPercentages - FullPercentage) > Tolerance
        /\ PercentageError => alloc.out.value.a = SumPercentages
        /\ ~PercentageError =>
              \A i \in 1..NumParticipants :
                 2 * Abs(FullPercentage * alloc.participants[i].share_amount
                         - Get(alloc.given[i].share_percentage, 0) * alloc.total_amount)
                    <= FullPercentage

\* the call came to the paid check: no TypeError, no percentage error
CameToPaidCheck ==
    /\ alloc.out.kind # "none"
    /\ ~HasNone(alloc.given, alloc.split_method)
    /\ ~PercentageError

NobodyPaid == \A i \in 1..NumParticipants : Get(alloc.given[i].amount_paid, 0) = 0

NoOwedComputed ==
    \A i \in 1..Len(alloc.participants) : alloc.participants[i].amount_owed = Absent

\* C9 as claimed: under every method the call fails with a validation error
\* stating both values exactly when the amounts paid sum to something more than
\* 0.01 from total_amount; no amount_owed is computed then; a split in which
\* nobody paid is rejected.
C9_PaidErrorIffFarFromTotal ==
    alloc.out.kind # "none" =>
        /\ PaidError <=> Abs(SumPaid - alloc.total_amount) > Tolerance
        /\ PaidError => /\ alloc.out.value.a = SumPaid
                        /\ alloc.out.value.b = alloc.total_amount
                        /\ NoOwedComputed
        /\ NobodyPaid => alloc.out.kind = "raise"

\* C9 as amended: a call that comes to the paid check (under the percentage
\* method the percentage check comes first) fails with a validation error
\* stating both values when the amounts paid sum to something more than 0.01
\* from total_amount and succeeds when they are less than 0.01 apart; no
\* amount_owed is computed when it fails; a split in which nobody paid is
\* rejected when total_amount is more than 0.01.
C9_PaidErrorWhenFarFromTotal ==
    /\ CameToPaidCheck =>
          /\ Abs(SumPaid - alloc.total_amount) > Tolerance => PaidError
          /\ Abs(SumPaid - alloc.total_amount) < Tolerance => Allocated
          /\ PaidError => /\ alloc.out.value.a = SumPaid
                          /\ alloc.out.value.b = alloc.total_amount
          /\ (NobodyPaid /\ alloc.total_amount > Tolerance) => PaidError
    /\ (alloc.out.kind = "raise" => NoOwedComputed)

\* C9: a split in which nobody paid has been rejected, with its shares already
\* written and no amount_owed
C9_NobodyPaidRejected ==
    /\ PaidError
    /\ NobodyPaid
    /\ alloc.out.value.a = 0
    /\ alloc.out.value.b = 30000
    /\ alloc.participants[1].share_amount = 15000
    /\ NoOwedComputed

-----------------------------------------------------------------------------
(* Properties of categorize_merchant (SpecCat) *)

-----------------------------------------------------------------------------
(* Properties of the transaction store and the pipeline *)

\* the stored transactions with the (user_id, merchant, amount, date) of t
Alike(t) == SameTuple(t.user_id, t.merchant, t.amount, t.date)

\* the stored transactions with the tuple runner r has parsed
StoredAsParsed(r) ==
    SameTuple(run[r].user_id, run[r].parsed.merchant, run[r].parsed.amount,
              run[r].parsed.date)

\* runner r takes its duplicate-check step
ChecksDuplicate(r) == run[r].pc = "check" /\ run'[r] # run[r]

\* runner r has come to its summary with every transaction of its batch stored
\* exactly once
BatchStoredOnce(r) ==
    run[r].pc = "summary" =>
        \A i \in 1..Len(run[r].emails) :
            LET parsed == ParsedInbox[run[r].emails[i]]
            IN  parsed # NotFound =>
                   Cardinality(SameTuple(run[r].user_id, parsed.merchant, parsed.amount,
                                         parsed.date)) = 1

C2_NoTwoTransactionsAlike ==
    \A t1, t2 \in transactions :
        (/\ t1.user_id = t2.user_id
         /\ t1.merchant = t2.merchant
         /\ t1.amount = t2.amount
         /\ t1.date = t2.date) => t1 = t2

\* C3: however the steps of the monitor's run and of a /api/fetch-transactions
\* run for the same user interleave, each of that user's stored transactions is
\* the only one with its (user_id, merchant, amount, date).
C3_NoTwoAlikeAfterOverlap ==
    \A t \in transactions :
        t.user_id = USER_ID =>
            Cardinality(SameTuple(USER_ID, t.merchant, t.amount, t.date)) = 1

-----------------------------------------------------------------------------
(* Properties of the splits collection *)

OneSplitPerTransaction ==
    \A s \in splits : SplitsOf(s.user_id, s.transaction_id) = {s}

\* create_or_update_split has just returned the id of a split
SplitWritten == resp.op = "create_split" /\ resp.status = 200

\* C4: with create_or_update_split and delete_split called one after the other
\* there is at most one split per (user_id, transaction_id); a successful
\* create_or_update_split for a transaction that has a split replaces that
\* split where it is and returns its id, and for a transaction without one
\* inserts a split under a new id.
C4_OneSplitUpdatedInPlace ==
    [][/\ OneSplitPerTransaction'
       /\ SplitWritten' =>
            \E s \in splits' :
               /\ s.id = resp'.id
               /\ LET old == SplitsOf(s.user_id, s.transaction_id)
                  IN  IF old = {}
                      THEN s.id = nextId /\ splits' = splits \cup {s}
                      ELSE /\ old = {o \in splits : o.id = s.id}
                           /\ splits' = (splits \ old) \cup {s}]_vars

\* C4: the one split of the store has been replaced by a percentage split under
\* the id it had before a later document was stored
C4_SplitReplaced ==
    /\ SplitWritten
    /\ resp.id + 1 < nextId
    /\ Cardinality(splits) = 1
    /\ \E s \in splits : s.id = resp.id /\ s.split_method = "percentage"

\* C5: when the create_or_update_split calls in flight have all returned, every
\* transaction that has a split has exactly one, and the split the last call
\* returned is there.
C5_OneSplitAfterRace ==
    (\A c \in Callers : call[c].pc = "idle") =>
        /\ OneSplitPerTransaction
        /\ SplitWritten => \E s \in splits : s.id = resp.id

-----------------------------------------------------------------------------
(* Properties of the classifier's repair and of the keyword fallback (SpecCat) *)

\* the classifier answered, and its answer is empty, white space only, or text
\* that neither holds a category name nor is part of one
EmptyOrUnparseable(text) ==
    \/ strip(text) = ""
    \/ \A i \in 1..Len(get_valid_categories) :
          /\ ~In(lower(get_valid_categories[i]), lower(strip(text)))
          /\ ~In(lower(strip(text)), lower(get_valid_categories[i]))

\* C11: when the classifier returns empty, white-space-only or otherwise
\* unparseable output, categorize_merchant returns exactly what the keyword
\* fallback returns for that merchant.
C11_UnparseableAnswerGivesFallback ==
    (/\ cat.out.kind # "none"
     /\ cat.api_key
     /\ cat.gemini.kind = "text"
     /\ EmptyOrUnparseable(cat.gemini.text))
    => cat.out = Return(categorize_merchant_fallback(cat.merchant_name))

\* some keyword list of this category holds a keyword found in the merchant name
ListMatches(category, merchant_lower) ==
    \E r \in 1..Len(FallbackRules) :
        /\ FallbackRules[r].category = category
        /\ AnyKeyword(FallbackRules[r].keywords, merchant_lower)

-----------------------------------------------------------------------------
(* Properties of the requests that name a transaction (SpecSplits) *)

\* the id names a transaction, or a split of a transaction, of another user
\* than the one asking, and nothing of the one asking
OwnedByAnother(user_id, transaction_id) ==
    /\ \A t \in transactions : t.id = transaction_id => t.user_id # user_id
    /\ \A s \in splits : s.transaction_id = transaction_id => s.user_id # user_id
    /\ \/ \E t \in transactions : t.id = transaction_id
       \/ \E s \in splits : s.transaction_id = transaction_id

\* the id names no transaction and no split of anybody
NamesNothing(transaction_id) ==
    /\ \A t \in transactions : t.id # transaction_id
    /\ \A s \in splits : s.transaction_id # transaction_id

\* the first request is answered, each of its outcomes leaves the stored data
\* as it was and is an outcome of the second request, and the second request
\* has no other outcome: same effect, same answer
SameOutcome(request, other) ==
    /\ ENABLED request
    /\ ~ENABLED (request /\ ~(UNCHANGED <<transactions, splits>> /\ other))
    /\ ~ENABLED (other /\ ~request)

\* C13: for delete_transaction, create_or_update_split, get_split_by_transaction
\* and delete_split, a request of one user that names a transaction or split of
\* another user changes no stored data and has the outcome of the same request
\* naming an id that does not exist.
C13_ForeignIdLooksLikeNoId ==
    \A user_id \in Users, foreign \in 1..MaxId :
       OwnedByAnother(user_id, foreign) =>
          \A nothing \in {n \in 1..(MaxId + 1) : NamesNothing(n)} :
             /\ SameOutcome(DeleteTransaction(foreign, user_id),
                            DeleteTransaction(nothing, user_id))
             /\ \A req \in SplitRequests :
                   SameOutcome(CreateOrUpdateSplit(user_id, foreign, req),
                               CreateOrUpdateSplit(user_id, nothing, req))
             /\ SameOutcome(GetSplitByTransaction(user_id, foreign),
                            GetSplitByTransaction(user_id, nothing))
             /\ SameOutcome(DeleteSplit(user_id, foreign),
                            DeleteSplit(user_id, nothing))

\* C13: every id names a transaction of demo_user, and a delete_transaction
\* request, which only the other user can have sent without deleting one, was
\* answered "not found"
C13_ForeignDeleteAnswered ==
    /\ resp = Response("delete_transaction", "", 404, NoId)
    /\ \A i \in 1..MaxId : \E t \in transactions : t.id = i /\ t.user_id = USER_ID

-----------------------------------------------------------------------------
(* Properties of the split document (SpecPurchases) *)

\* the split is what create_or_update_split builds of this transaction: its
\* merchant, total, category and date, and the shares calculate_split_amounts
\* gives some request of the model for the transaction's amount
BuiltFrom(s, t) ==
    /\ s.merchant = t.merchant
    /\ s.total_amount = t.amount
    /\ s.category = t.category
    /\ s.date = t.date
    /\ \E req \in PurchaseSplitRequests :
          /\ req.split_method = s.split_method
          /\ req.notes = s.notes
          /\ \E fp \in FloatOracles(t.amount, req.participants, req.split_method) :
                calculate_split_amounts(t.amount, req.participants, req.split_method, fp)
                   = Return(s.participants)
    /\ Abs(SumSeq([i \in 1..Len(s.participants) |-> s.participants[i].share_amount])
           - t.amount) <= Len(s.participants)

\* C14: after every successful create_or_update_split the stored split's
\* merchant, total_amount, category and date are those of the transaction it
\* refers to, as stored when the call was made, and its shares are computed from
\* that transaction's stored amount, not from a total the caller supplies.
C14_SplitCopiesStoredTransaction ==
    [][(resp'.op = "create_split" /\ resp'.status = 200) =>
          \E s \in splits' :
             /\ s.id = resp'.id
             /\ \E t \in transactions :
                   /\ t.id = s.transaction_id
                   /\ t.user_id = s.user_id
                   /\ BuiltFrom(s, t)]_vars

\* C14: a purchase of 450.00 has a split, made while a purchase of 1299.00 is
\* stored too
C14_SplitOfTheSmallerPurchase ==
    \E s \in splits, t \in transactions, u \in transactions :
        /\ t.id = s.transaction_id
        /\ t.amount = 45000
        /\ u.amount = 129900
        /\ u.id < s.id
        /\ s.total_amount = 45000
        /\ s.merchant = "Domino's Pizza"
        /\ resp = Response("create_split", "", 200, s.id)

-----------------------------------------------------------------------------
(* Properties of parse_transaction_from_email (SpecParse) *)

Parsed == parse.out.kind = "return"

FullText == parse.subject \o " " \o parse.body

\* rule k taken alone: both of its patterns match the combined text
BothMatch(k) ==
    /\ AmountSearch(get_regex_patterns[k].amount, lower(FullText)).found
    /\ MerchantSearch(get_regex_patterns[k].keywords, lower(FullText)).found

\* rule k taken alone: the amount its amount pattern captures
AmountOfRule(k) ==
    LET m == AmountSearch(get_regex_patterns[k].amount, lower(FullText))
    IN  AmountOf(SubSeq(FullText, m.from, m.to - 1))

\* rule k taken alone: the merchant its merchant pattern captures, cleaned
MerchantOfRule(k) ==
    LET m == MerchantSearch(get_regex_patterns[k].keywords, lower(FullText))
    IN  CleanMerchant(SubSeq(FullText, m.from, m.to - 1))

\* rule k taken alone gives both fields: an amount other than 0 and a merchant
\* that is not empty
Yields(k) == BothMatch(k) /\ AmountOfRule(k) # 0 /\ MerchantOfRule(k) # ""

RuleNumbers == 1..Len(get_regex_patterns)

\* C15: there are seven rule pairs, and a returned candidate has the amount and
\* the merchant of the earliest rule, in list order, whose amount pattern and
\* merchant pattern both match the combined subject+body text, whatever later
\* rules match.
C15_FieldsOfEarliestMatchingRule ==
    /\ Len(get_regex_patterns) = 7
    /\ (Parsed /\ parse.out.value # NotFound) =>
          LET matching == {k \in RuleNumbers : BothMatch(k)}
          IN  /\ matching # {}
              /\ parse.out.value.amount = AmountOfRule(Least(matching))
              /\ parse.out.value.merchant = MerchantOfRule(Least(matching))

\* C15 (amended): a returned candidate has the amount and the merchant of the
\* earliest rule, in list order, whose two patterns both match the combined
\* text and give an amount other than 0 and a merchant that is not empty once
\* cleaned; both fields are of that one rule, whatever later rules give.
C15_FieldsOfEarliestYieldingRule ==
    /\ Len(get_regex_patterns) = 7
    /\ (Parsed /\ parse.out.value # NotFound) =>
          LET yielding == {k \in RuleNumbers : Yields(k)}
          IN  /\ yielding # {}
              /\ parse.out.value.amount = AmountOfRule(Least(yielding))
              /\ parse.out.value.merchant = MerchantOfRule(Least(yielding))

\* C15: both patterns of rule 1 match, but its merchant is empty once cleaned;
\* rule 2 gives the candidate, and the generic rule 7, which gives another
\* merchant, does not override it
C15_SecondRuleDecides ==
    /\ Parsed
    /\ parse.body = "Rs 500 at - on Monday, paid to Foo."
    /\ BothMatch(1) /\ ~Yields(1)
    /\ Yields(2) /\ Yields(7)
    /\ MerchantOfRule(7) # MerchantOfRule(2)
    /\ parse.out.value.merchant = "Foo"
    /\ parse.out.value.amount = 50000

\* C16: parse_transaction_from_email returns, it does not raise; it returns a
\* candidate exactly when some rule gives both fields, every candidate has an
\* amount above 0 and a merchant that is not empty, and in every other case the
\* result is NotFound.
C16_CandidateIffSomeRuleYields ==
    parse.out.kind # "none" =>
        /\ parse.out.kind = "return"
        /\ parse.out.value # NotFound <=> \E k \in RuleNumbers : Yields(k)
        /\ parse.out.value # NotFound =>
              /\ parse.out.value.amount > 0
              /\ parse.out.value.merchant # ""

\* C16: the amount matched is 0: rule 1 matches with both patterns and finds a
\* merchant, no rule gives both fields, and the result is NotFound
C16_AmountZeroNotFound ==
    /\ Parsed
    /\ parse.body = "Rs 0 spent at Foo on 1/1/2025"
    /\ BothMatch(1)
    /\ AmountOfRule(1) = 0
    /\ MerchantOfRule(1) = "Foo"
    /\ parse.out.value = NotFound

\* the notifications of tests/test.py:33-44 and the records documented for them
PaymentAlert ==
    [subject |-> "Payment Alert", body |-> "Rs. 450 spent at Domino's Pizza on 15 Oct 2025"]

TransactionAlert ==
    [subject |-> "Transaction Alert", body |-> "₹1299 debited to Amazon on 18/10/2025"]

ParsedFrom(mail) == Parsed /\ parse.subject = mail.subject /\ parse.body = mail.body

\* C17: "Rs. 450 spent at Domino's Pizza on 15 Oct 2025" gives merchant
\* "Domino's Pizza", amount 450.0 and date 2025-10-15, and "₹1299 debited to
\* Amazon on 18/10/2025" gives merchant "Amazon", amount 1299.0 and date
\* 2025-10-18.
C17_DocumentedSamples ==
    /\ ParsedFrom(PaymentAlert) =>
          parse.out.value =
             [merchant |-> "Domino's Pizza", amount |-> 45000, date |-> "2025-10-15"]
    /\ ParsedFrom(TransactionAlert) =>
          parse.out.value =
             [merchant |-> "Amazon", amount |-> 129900, date |-> "2025-10-18"]

\* C17: the second sample was parsed: its amount behind the rupee sign, its
\* merchant by rule 2 after rule 1 found none, its date read day first
C17_RupeeSignSampleParsed ==
    /\ ParsedFrom(TransactionAlert)
    /\ ~BothMatch(1)
    /\ Yields(2)
    /\ parse.out.value # NotFound
    /\ parse.out.value.date = "2025-10-18"

-----------------------------------------------------------------------------
(* Properties of a run whose collaborators fail (SpecSeq) *)

\* C18: when the database cannot be reached, the mail service cannot be set up
\* or fetching the messages fails during a run of process_all_transactions, the
\* run ends before it processes a message, inserts nothing, and returns a result
\* with success = false.
C18_CollaboratorFailureReported ==
    result.fault # "none" =>
        /\ run[result.runner].pc = "idle"
        /\ result.total_new = 0
        /\ ~result.success

-----------------------------------------------------------------------------
(* C19 *)

\* the errors calculate_split_amounts can leave with on a request over a stored
\* transaction, one for each way the float arithmetic can come out
AllocationErrors(transaction, req) ==
    {calculate_split_amounts(transaction.amount, req.participants,
                             req.split_method, fp) :
        fp \in FloatOracles(transaction.amount, req.participants, req.split_method)}

\* the allocation of the request fails validation, however the arithmetic
\* comes out
FailsValidation(transaction, req) ==
    /\ req.split_method \in SplitMethods
    /\ \A calc \in AllocationErrors(transaction, req) :
          calc.kind = "raise" /\ calc.value.type = "ValueError"

\* the answer is a validation failure that carries the numbers of one of errors
CarriesNumbers(answer, errors) ==
    /\ answer.status = 400
    /\ \E calc \in errors : answer.detail = calc.value

\* C19: when the allocation of a create-split request fails validation
\* (percentages not adding up to 100, payments not adding up to the total), the
\* caller of create_or_update_split and the client of the create-split endpoint
\* get a validation failure that carries the offending numbers, not a generic
\* failure and not a server error.
C19_ValidationFailureCarriesNumbers ==
    \A transaction \in transactions, req \in EndpointRequests :
        FailsValidation(transaction, req) =>
            LET errors == AllocationErrors(transaction, req)
            IN  /\ ~ENABLED (/\ CreateSplitEndpoint(transaction.user_id, transaction.id, req)
                             /\ ~CarriesNumbers(resp', errors))
                /\ ~ENABLED (/\ CreateOrUpdateSplit(transaction.user_id, transaction.id, req)
                             /\ ~CarriesNumbers(resp', errors))

-----------------------------------------------------------------------------
(* C20 *)

\* C20: in every reachable state the category of every stored transaction is
\* one of the twelve values of the fixed category set, whichever path inserted
\* it: the pipeline with the categorizer, the manual add-transaction request,
\* or insert_demo_transactions.
C20_StoredCategoryInFixedSet ==
    \A t \in transactions : t.category \in SeqToSet(get_valid_categories)

-----------------------------------------------------------------------------
(* C21 *)

\* the category the test table lists the merchant under
ListedUnder(merchant_name) ==
    LET c == CHOOSE c \in 1..Len(test_cases) :
                 \E m \in 1..Len(test_cases[c].merchants) :
                     test_cases[c].merchants[m] = merchant_name
    IN  test_cases[c].category

\* C21: categorize_merchant maps every merchant of the categorization test table
\* to the category it is listed under, also the merchants whose names hold
\* keywords of more than one category: with the keyword fallback alone
\* "Amazon Prime Subscription" and "YouTube Premium" give Subscriptions, "Nykaa
\* Beauty" gives Personal Care and "Random Store 123" gives Others.
C21_TestTableCategories ==
    cat.out.kind = "return" => cat.out.value = ListedUnder(cat.merchant_name)

-----------------------------------------------------------------------------
(* C22 *)

\* the classifier answered this call; its response is response.text with the
\* white space around it stripped (categorizer.py:72)
Answered == cat.out.kind # "none" /\ cat.api_key /\ cat.gemini.kind = "text"

\* the category at place c of the fixed set holds the response or is held by
\* it, both lower-cased
MatchesEitherWay(c, response) ==
    LET valid_lower == lower(get_valid_categories[c])
        response_lower == lower(response)
    IN  \/ \E i \in 1..(Len(response_lower) - Len(valid_lower) + 1) :
              SubSeq(response_lower, i, i + Len(valid_lower) - 1) = valid_lower
        \/ \E i \in 1..(Len(valid_lower) - Len(response_lower) + 1) :
              SubSeq(valid_lower, i, i + Len(response_lower) - 1) = response_lower

\* C22: validation of the classifier's output in categorize_merchant: a response
\* exactly equal (case-sensitive) to a category of the fixed set is returned as
\* it is; otherwise the result is the first category, in the defined order of
\* the fixed set, for which the lower-cased response contains the lower-cased
\* category or the lower-cased category contains the lower-cased response; the
\* keyword fallback is used only when no category matches either way.
C22_ExactThenFirstEitherWayThenFallback ==
    Answered =>
        LET response == strip(cat.gemini.text)
            places == 1..Len(get_valid_categories)
            matching == {c \in places : MatchesEitherWay(c, response)}
        IN  /\ cat.out.kind = "return"
            /\ IF \E c \in places : get_valid_categories[c] = response
               THEN cat.out.value = response
               ELSE IF matching # {}
               THEN \E c \in matching :
                      /\ \A d \in matching : c <= d
                      /\ cat.out.value = get_valid_categories[c]
               ELSE cat.out.value = categorize_merchant_fallback(cat.merchant_name)

\* a response that is only part of a category name was repaired to that
\* category, for a merchant the fallback puts elsewhere
C22_PartOfACategoryNameAccepted ==
    /\ Answered
    /\ cat.gemini.text = "Bills"
    /\ cat.merchant_name = "Netflix"
    /\ cat.out = Return("Bills and Utilities")

-----------------------------------------------------------------------------
(* C23 *)

\* the ratio the claim gives a participant: 1 when share_ratio is missing or
\* was omitted from the request
RatioOrOne(p) == IF p.share_ratio \in {Absent, NoneVal} THEN 1 ELSE p.share_ratio

\* value is num / den rounded to the nearest unit
RoundedFrom(value, num, den) == 2 * Abs(value * den - num) <= den

\* the participants of a stored split carry the shares of their ratios:
\* share_percentage = ratio / total_ratio * 100 and share_amount = ratio /
\* total_ratio * total_amount, both rounded to two places
SharesByRatio(stored, req, total_amount) ==
    LET idx == 1..Len(req.participants)
        total == SumSeq([i \in idx |-> RatioOrOne(req.participants[i])])
    IN  /\ Len(stored) = Len(req.participants)
        /\ \A i \in idx :
             /\ RoundedFrom(stored[i].share_percentage,
                            RatioOrOne(req.participants[i]) * FullPercentage, total)
             /\ RoundedFrom(stored[i].share_amount,
                            RatioOrOne(req.participants[i]) * total_amount, total)

\* the request pays the whole amount of the transaction
PaysInFull(transaction, req) == total_paid(req.participants) = transaction.amount

\* C23: under the ratio method a participant whose share_ratio was not given
\* counts with ratio 1, also when the split comes through a create-split
\* request that omits share_ratio: the request succeeds and each stored
\* participant has share_percentage = ratio / total_ratio * 100 and
\* share_amount = ratio / total_ratio * total_amount, rounded to two places.
C23_OmittedRatioCountsAsOne ==
    \A transaction \in transactions, req \in EndpointRequests :
        (req.split_method = "ratio" /\ PaysInFull(transaction, req)) =>
            ~ENABLED (/\ CreateSplitEndpoint(transaction.user_id, transaction.id, req)
                      /\ ~(/\ resp'.status = 200
                           /\ \E s \in SplitsOf(transaction.user_id, transaction.id)' :
                                SharesByRatio(s.participants, req, transaction.amount)))

-----------------------------------------------------------------------------
(* C24 *)

\* the pieces of text of this call, in the order they stand in the text
PiecesOfCall ==
    LET piece(text) == CHOOSE k \in 1..Len(DatePhrases) : DatePhrases[k].text = text
    IN  <<DatePhrases[piece(parse.subject)], DatePhrases[piece(parse.body)]>>

\* C24: extract_date_from_text tries the three shapes in the order D/M/YYYY,
\* YYYY/M/D, D month-name YYYY, each over the whole text: the first shape in
\* that order that matches anywhere in the text decides, wherever in the text
\* the other shapes match; the first numeric shape is read day first; the
\* result is the canonical YYYY-MM-DD with month and day zero-padded.
C24_FirstShapeInOrderDecides ==
    parse.out.kind = "return" =>
        LET pieces == PiecesOfCall
            shapes == {pieces[k].shape : k \in 1..2} \ {0}
        IN  IF shapes = {} THEN parse.out.value = Today
            ELSE \E k \in 1..2 :
                   /\ pieces[k].shape = Least(shapes)
                   /\ \A j \in 1..(k - 1) : pieces[j].shape # pieces[k].shape
                   /\ parse.out.value = pieces[k].date

\* a date of the first shape decided although one of the second shape stands
\* before it in the text, and its one-digit day and month were padded
C24_LaterPieceOfEarlierShape ==
    /\ parse.subject = "(2024/3/5)"
    /\ parse.body = "Ref 7/11/2023 12:30"
    /\ parse.out = Return("2023-11-07")

-----------------------------------------------------------------------------
(* C25 *)

\* the monitor's run and the message it is at
Monitor == run["monitor"]

\* the step leaves the message of rec behind: the loop is at the next message
\* or at the summary, and nothing was stored
MovesOn(rec, after) ==
    /\ after.pc \in {"parse", "summary"}
    /\ after.pc = "parse" => after.i = rec.i + 1
    /\ after.pc = "summary" => rec.i = Len(rec.emails)
    /\ transactions' = transactions

\* C25: for every message of a run, process_all_transactions calls the
\* categorizer only after extraction succeeded and the duplicate check reported
\* no existing tuple, and attempts to persist only after the categorizer
\* returned; a message that is NotFound is counted as failed and a message the
\* duplicate check reports as stored is counted as duplicate, and from neither
\* the run goes to the categorizer or to an insert: it goes to the next message.
C25_OrderOfTheStepsOfAMessage ==
    [][LET rec == Monitor
           after == Monitor'
       IN  /\ (after.pc = "check" /\ rec.pc # "check") =>
                 /\ rec.pc = "parse" /\ after.i = rec.i
                 /\ ParsedInbox[rec.emails[rec.i]] # NotFound
                 /\ after.parsed = ParsedInbox[rec.emails[rec.i]]
           /\ (after.pc = "categorize" /\ rec.pc # "categorize") =>
                 /\ rec.pc = "check" /\ after.i = rec.i
                 /\ after.parsed = rec.parsed
                 /\ after.total_duplicates = rec.total_duplicates
           /\ (after.pc = "insert" /\ rec.pc # "insert") =>
                 /\ rec.pc = "categorize" /\ after.i = rec.i
                 /\ after.category \in CategoriesOf[rec.parsed.merchant]
           /\ transactions' # transactions =>
                 /\ rec.pc = "insert"
                 /\ \E t \in transactions' \ transactions :
                      /\ transactions' = transactions \cup {t}
                      /\ t.merchant = rec.parsed.merchant
                      /\ t.category = rec.category
           /\ (rec.pc = "parse" /\ ParsedInbox[rec.emails[rec.i]] = NotFound) =>
                 /\ after.total_failed = rec.total_failed + 1
                 /\ MovesOn(rec, after)
           /\ (rec.pc # "idle" /\ after.pc # "idle"
                 /\ after.total_duplicates # rec.total_duplicates) =>
                 /\ rec.pc = "check"
                 /\ after.total_duplicates = rec.total_duplicates + 1
                 /\ check_duplicate_transaction(rec.user_id, rec.parsed.merchant,
                                                rec.parsed.amount, rec.parsed.date)
                 /\ MovesOn(rec, after)]_vars

\* a run of two messages, one NotFound and one a duplicate of a stored
\* payment, is at its summary with both counted and nothing more stored
C25_NotFoundAndDuplicateSkipped ==
    /\ Monitor.pc = "summary"
    /\ Monitor.total_processed = 2
    /\ Monitor.total_failed = 1
    /\ Monitor.total_duplicates = 1
    /\ Monitor.total_inserted = 0
    /\ {Monitor.emails[k].message_id : k \in 1..2} = {"m3", "m4"}
    /\ Cardinality(transactions) = 1


-----------------------------------------------------------------------------
(* C26 *)

\* the messages of the run counted so far
Counted(rec) == rec.total_inserted + rec.total_duplicates + rec.total_failed

\* C26: in every run of process_all_transactions that reaches the processing
\* loop, every fetched message is processed even if processing an earlier
\* message failed or raised, and each message is counted in exactly one of
\* inserted, duplicates, failed: while the loop is at message i the three counts
\* add up to i - 1, and at the end of the run inserted + duplicates + failed
\* equals the number of messages fetched.
C26_EveryMessageCountedOnce ==
    /\ Monitor.pc \in {"parse", "check", "categorize", "insert"} =>
          /\ Monitor.i \in 1..Len(Monitor.emails)
          /\ Counted(Monitor) = Monitor.i - 1
    /\ Monitor.pc = "summary" =>
          /\ Monitor.i = Len(Monitor.emails)
          /\ Counted(Monitor) = Len(Monitor.emails)
          /\ Monitor.total_processed = Len(Monitor.emails)

\* the first message of a run failed although it holds a payment, and the
\* second one was stored all the same
C26_StoredAfterAFailure ==
    /\ Monitor.pc = "summary"
    /\ Len(Monitor.emails) = 2
    /\ Monitor.emails[1].message_id = "m1"
    /\ Monitor.emails[2].message_id = "m3"
    /\ Monitor.total_failed = 1
    /\ Monitor.total_inserted = 1
    /\ \E t \in transactions : transactions = {t} /\ t.merchant = "Amazon"

-----------------------------------------------------------------------------
(* C27 *)

\* C27: in every reachable state the transaction_id of every stored split
\* refers to a stored transaction of the same user; after delete_transaction
\* removes a transaction that has a split, no split for it remains.
C27_SplitRefersToStoredTransaction ==
    \A s \in splits : TransactionsOf(s.user_id, s.transaction_id) # {}

-----------------------------------------------------------------------------
(* C28 *)

\* create_or_update_split fails on this request: the user has no such
\* transaction, or the allocation fails validation
SplitFails(user_id, transaction_id, req) ==
    \/ TransactionsOf(user_id, transaction_id) = {}
    \/ \E t \in TransactionsOf(user_id, transaction_id) : FailsValidation(t, req)

\* C28: when create_or_update_split fails (the transaction is not found for the
\* user, or the allocation fails validation), the set of stored splits is
\* unchanged: no split is created and a split the transaction already has keeps
\* its participants, method and notes.
C28_FailedSplitLeavesSplitsAlone ==
    \A transaction_id \in 1..MaxId, req \in PurchaseSplitRequests :
        SplitFails(USER_ID, transaction_id, req) =>
            ~ENABLED (/\ CreateOrUpdateSplit(USER_ID, transaction_id, req)
                      /\ ~(splits' = splits /\ resp'.status = 400))

\* create_or_update_split has just failed on a request for a transaction that
\* is stored and has a split, and the split is still there
C28_SplitKeptAfterFailedUpdate ==
    /\ resp = Response("create_split", "", 400, NoId)
    /\ transactions # {}
    /\ \A t \in transactions : SplitsOf(t.user_id, t.id) # {}

-----------------------------------------------------------------------------
(* C29 *)

\* the days of a month of a year of the Gregorian calendar
DaysIn(year, month) ==
    IF month \in {4, 6, 9, 11} THEN 30
    ELSE IF month # 2 THEN 31
    ELSE IF year % 4 = 0 /\ (year % 100 # 0 \/ year % 400 = 0) THEN 29
    ELSE 28

\* str is YYYY-MM-DD and names a day of the calendar
IsCalendarDate(str) ==
    /\ Len(str) = 10
    /\ \A i \in {1, 2, 3, 4, 6, 7, 9, 10} : IsDigit(CharAt(str, i))
    /\ CharAt(str, 5) = "-" /\ CharAt(str, 8) = "-"
    /\ LET year  == DigitsValue(SubSeq(str, 1, 4), 0)
           month == DigitsValue(SubSeq(str, 6, 7), 0)
           day   == DigitsValue(SubSeq(str, 9, 10), 0)
       IN  /\ month \in 1..12
           /\ day \in 1..DaysIn(year, month)

\* C29: every date the extractor returns denotes a real calendar date: for a
\* text that matches a date shape, the month of the YYYY-MM-DD string returned
\* is in 01..12 and the day is valid for that month; numbers that form no valid
\* date are not turned into a date.
C29_ReturnedDateIsCalendarDate ==
    parse.out.kind = "return" => IsCalendarDate(parse.out.value)

-----------------------------------------------------------------------------
(* C30 *)

\* C30: after stop_monitoring is called the monitor loop eventually exits
\* (every pipeline run terminating), whether the thread is sleeping between
\* two checks, in the middle of a run or in its error back-off, and it starts
\* at most one further pipeline run after the call.
C30_StoppedLoopExits ==
    /\ [](monitor.further <= 1)
    /\ (~monitor.active) ~> (monitor.pc = "exited")

\* the loop has exited after a run it started when monitoring had already
\* been stopped
C30_ExitedAfterOneMoreRun ==
    /\ monitor.pc = "exited"
    /\ monitor.further = 1
    /\ transactions # {}

====
